---------------------------- MODULE Spec2Model ----------------------------
(***************************************************************************)
(* Ad Ops Hub backend (webapp1/app2, app3 and the app1 variant): the       *)
(* source sheet, the Permissions sheet, the document cache and the web-app *)
(* handlers getDashboardData, searchCampaignByType and appendCodeToSheet.  *)
(*                                                                         *)
(* Text is a sequence of one-character strings, so that trim, toUpperCase, *)
(* includes and sort act on the characters.  Dates are whole days.         *)
(***************************************************************************)
EXTENDS Integers, Sequences, FiniteSets, TLC

(***************************************************************************)
(* Bounds of the model.                                                    *)
(***************************************************************************)
MaxRows == 3          \* grid rows of the source sheet (getMaxRows), header included
TickSeconds == 30     \* seconds by which one Tick advances the clock
DaysPerMonth == 10    \* length of a month of the model's calendar
Today == 15           \* the day "new Date()" returns

(***************************************************************************)
(* Program constants.                                                      *)
(***************************************************************************)
CACHE_EXP_SECONDS == 60
SEARCH_EXP_SECONDS == 30
SEARCH_CACHE_CAP == 300
ENTRY_COLUMN_INDEX == 43

CACHE_KEY_BASE_DATA == <<"DASHBOARD_BASE_V1">>
CACHE_KEY_SEARCH_PREFIX == "SEARCH_CT_"

(***************************************************************************)
(* Text.                                                                   *)
(***************************************************************************)
CharCode(c) ==
    CASE c = " " -> 32
      [] c = "$" -> 36
      [] c = "-" -> 45
      [] c = "/" -> 47
      [] c = "0" -> 48
      [] c = "1" -> 49
      [] c = "7" -> 55
      [] c = "9" -> 57
      [] c = "A" -> 65
      [] c = "B" -> 66
      [] c = "N" -> 78
      [] c = "a" -> 97
      [] c = "b" -> 98
      [] c = "c" -> 99
      [] c = "d" -> 100
      [] c = "n" -> 110
      [] OTHER -> 120

UpperChar(c) ==
    CASE c = "a" -> "A"
      [] c = "b" -> "B"
      [] c = "n" -> "N"
      [] OTHER -> c

LowerChar(c) ==
    CASE c = "A" -> "a"
      [] c = "B" -> "b"
      [] c = "N" -> "n"
      [] OTHER -> c

toUpperCase(s) == [i \in 1..Len(s) |-> UpperChar(s[i])]

toLowerCase(s) == [i \in 1..Len(s) |-> LowerChar(s[i])]

RECURSIVE trimStart(_)
trimStart(s) ==
    IF s # <<>> /\ Head(s) = " " THEN trimStart(Tail(s)) ELSE s

RECURSIVE trimEnd(_)
trimEnd(s) ==
    IF s # <<>> /\ s[Len(s)] = " " THEN trimEnd(SubSeq(s, 1, Len(s) - 1)) ELSE s

trim(s) == trimEnd(trimStart(s))

includes(hay, needle) ==
    \E i \in 0..(Len(hay) - Len(needle)) : SubSeq(hay, i + 1, i + Len(needle)) = needle

\* s < t in the order of Array.prototype.sort() without a comparator (code units)
StrLess(s, t) ==
    \E i \in 1..(Len(t)) :
        /\ \A j \in 1..(i - 1) : j <= Len(s) /\ s[j] = t[j]
        /\ \/ i = Len(s) + 1
           \/ i <= Len(s) /\ CharCode(s[i]) < CharCode(t[i])

\* the elements of the set S of texts in ascending order
RECURSIVE SortStrings(_)
SortStrings(S) ==
    IF S = {} THEN <<>>
    ELSE LET m == CHOOSE x \in S : \A y \in S \ {x} : StrLess(x, y)
         IN  <<m>> \o SortStrings(S \ {m})

(***************************************************************************)
(* Cell values of the budget and date columns, and the values the          *)
(* sanitizers return.                                                      *)
(***************************************************************************)
NumCell(n) == [t |-> "number", n |-> n, s |-> <<>>]
DateCell(d) == [t |-> "date", n |-> d, s |-> <<>>]
TextCell(s) == [t |-> "string", n |-> 0, s |-> s]
BlankCell == TextCell(<<>>)
NULL == [t |-> "null", n |-> 0, s |-> <<>>]

isValidDate(d) == d.t = "date"

\* safeDate: a Date stays; text that is not blank is parsed, and no text of the
\* model's alphabet is a date
safeDate(v) ==
    CASE v.t = "date" -> v
      [] v.t = "number" -> DateCell(v.n)
      [] OTHER -> NULL

IsNumericChar(c) == c \in {"0", "1", "2", "3", "4", "5", "6", "7", "8", "9", ".", "+", "-"}

DigitValue(c) ==
    CASE c = "0" -> 0 [] c = "1" -> 1 [] c = "2" -> 2 [] c = "3" -> 3 [] c = "4" -> 4
      [] c = "5" -> 5 [] c = "6" -> 6 [] c = "7" -> 7 [] c = "8" -> 8 [] OTHER -> 9

IsDigit(c) == c \in {"0", "1", "2", "3", "4", "5", "6", "7", "8", "9"}

\* v.replace(/[^0-9.+-]/g, '')
StripNonNumeric(s) == SelectSeq(s, IsNumericChar)

RECURSIVE DigitsValue(_)
DigitsValue(s) ==
    IF s = <<>> THEN 0 ELSE DigitsValue(SubSeq(s, 1, Len(s) - 1)) * 10 + DigitValue(s[Len(s)])

\* Number(text) for text of digits, signs and points: '' is 0, an optional sign
\* and digits with an optional trailing point is that integer, anything else NaN
NumberOf(s) ==
    LET signed == s # <<>> /\ s[1] \in {"+", "-"}
        body == IF signed THEN Tail(s) ELSE s
        digits == IF body # <<>> /\ body[Len(body)] = "." /\ Len(body) > 1
                  THEN SubSeq(body, 1, Len(body) - 1) ELSE body
    IN  IF s = <<>> THEN NumCell(0)
        ELSE IF digits # <<>> /\ \A i \in 1..Len(digits) : IsDigit(digits[i])
             THEN NumCell(IF signed /\ s[1] = "-" THEN 0 - DigitsValue(digits)
                          ELSE DigitsValue(digits))
             ELSE NULL

toNumber(v) ==
    CASE v.t = "number" -> v
      [] v.t = "string" /\ trim(v.s) # <<>> -> NumberOf(StripNonNumeric(v.s))
      [] OTHER -> NULL

isNonEmpty(v) == trim(v) # <<>> /\ toUpperCase(trim(v)) # <<"N", "/", "A">>


(***************************************************************************)
(* JavaScript objects used as accumulators: a sequence of <<key, value>>   *)
(* pairs in the order Object.entries returns them: the keys that are       *)
(* canonical array indices first, in ascending numeric order, then the     *)
(* other keys in insertion order.                                          *)
(***************************************************************************)
HasKey(obj, k) == \E i \in 1..Len(obj) : obj[i][1] = k

GetOr0(obj, k) ==
    IF HasKey(obj, k) THEN obj[CHOOSE i \in 1..Len(obj) : obj[i][1] = k][2] ELSE 0

\* a property name that is a canonical array index: decimal digits without a leading
\* zero (names of at most nine digits, all below 2^32 - 1)
IsArrayIndex(k) ==
    /\ k # <<>>
    /\ \A i \in 1..Len(k) : IsDigit(k[i])
    /\ Len(k) = 1 \/ k[1] # "0"

\* where a new key k enters the order of the keys of obj
KeyPosition(obj, k) ==
    IF IsArrayIndex(k)
    THEN Cardinality({i \in 1..Len(obj) :
                         IsArrayIndex(obj[i][1]) /\ DigitsValue(obj[i][1]) < DigitsValue(k)})
    ELSE Len(obj)

\* obj[k] = (obj[k] || 0) + v
AddTo(obj, k, v) ==
    IF HasKey(obj, k)
    THEN [i \in 1..Len(obj) |-> IF obj[i][1] = k THEN <<k, obj[i][2] + v>> ELSE obj[i]]
    ELSE SubSeq(obj, 1, KeyPosition(obj, k)) \o <<<<k, v>>>>
            \o SubSeq(obj, KeyPosition(obj, k) + 1, Len(obj))

\* platformClient[client][platform] = (platformClient[client][platform] || 0) + v:
\* the two-level object as one table keyed by <<client, platform>>
AddToCell(table, c, pl, v) ==
    IF HasKey(table, <<c, pl>>)
    THEN [i \in 1..Len(table) |->
             IF table[i][1] = <<c, pl>> THEN <<<<c, pl>>, table[i][2] + v>> ELSE table[i]]
    ELSE Append(table, <<<<c, pl>>, v>>)

ObjectKeys(obj) == {obj[i][1] : i \in 1..Len(obj)}

Label(name) == <<name>>

(***************************************************************************)
(* processDataForCharts of app2/app3.                                      *)
(***************************************************************************)
startOfMonth(today) == (today \div DaysPerMonth) * DaysPerMonth

endOfMonth(today) == startOfMonth(today) + DaysPerMonth - 1

EmptyAggregators ==
    [monthlyBudget |-> <<>>, platformClient |-> <<>>, allPlatforms |-> {},
     frequencyByClient |-> <<>>, campaignDurations |-> <<>>, campaignStatus |-> <<>>,
     monthlyBudgetByClient |-> <<>>]

\* statusCounts[status] += 1
CountStatus(agg, row) ==
    IF row.status # <<>>
    THEN [agg EXCEPT !.campaignStatus = AddTo(@, row.status, 1)]
    ELSE agg

\* platformClientData, allPlatforms and frequencyByClient
AddPlatformClient(agg, row, budget) ==
    IF isNonEmpty(row.client) /\ isNonEmpty(row.platform) /\ budget # NULL
    THEN [agg EXCEPT
            !.platformClient = AddToCell(@, row.client, row.platform, budget.n),
            !.allPlatforms = @ \cup {row.platform},
            !.frequencyByClient =
                AddTo(@, row.client \o <<" ", "-", " ">> \o row.platform, budget.n)]
    ELSE agg

\* startDate <= endOfMonth && endDate >= startOfMonth
InCurrentMonth(row, today) ==
    row.startDate.n <= endOfMonth(today) /\ row.endDate.n >= startOfMonth(today)

\* monthlyBudget by ad format and monthlyBudgetByClient, for the current month
AddMonthlyBudget(agg, row, budget, today) ==
    IF InCurrentMonth(row, today) /\ budget # NULL
    THEN [agg EXCEPT
            !.monthlyBudget = IF isNonEmpty(row.adFormat)
                              THEN AddTo(@, row.adFormat, budget.n) ELSE @,
            !.monthlyBudgetByClient = IF isNonEmpty(row.client)
                                      THEN AddTo(@, row.client, budget.n) ELSE @]
    ELSE agg

\* campaignDurations[campaignType] += days between the two dates
AddDuration(agg, row, budget) ==
    IF isNonEmpty(row.campaignType) /\ budget # NULL
    THEN [agg EXCEPT !.campaignDurations =
                         AddTo(@, row.campaignType, row.endDate.n - row.startDate.n)]
    ELSE agg

\* the body of the loop over the rows, for one row with its budget
AggregateDated(agg, row, budget, today) ==
    AddDuration(
        AddMonthlyBudget(
            AddPlatformClient(CountStatus(agg, row), row, budget),
            row, budget, today),
        row, budget)

\* the body of the loop over the rows: a row without two valid dates is skipped
AggregateRow(agg, row, today) ==
    IF ~isValidDate(row.startDate) \/ ~isValidDate(row.endDate) THEN agg
    ELSE AggregateDated(agg, row, toNumber(row.budget), today)

\* the loop over the rows, first to last
RECURSIVE AggregateRows(_, _, _)
AggregateRows(agg, data, today) ==
    IF agg.campaignDurations # agg.campaignDurations \/ data = <<>> THEN agg
    ELSE IF Len(data) = 1 THEN AggregateRow(agg, data[1], today)
    ELSE AggregateRows(AggregateRows(agg, SubSeq(data, 1, Len(data) \div 2), today),
                       SubSeq(data, Len(data) \div 2 + 1, Len(data)), today)

\* entries.sort((a, b) => b[1] - a[1]): a stable insertion sort, larger value first
RECURSIVE InsertByValueDesc(_, _)
InsertByValueDesc(sorted, e) ==
    IF sorted = <<>> THEN <<e>>
    ELSE IF e[2] > Head(sorted)[2] THEN <<e>> \o sorted
         ELSE <<Head(sorted)>> \o InsertByValueDesc(Tail(sorted), e)

RECURSIVE SortByValueDesc(_)
SortByValueDesc(entries) ==
    IF entries = <<>> THEN <<>>
    ELSE InsertByValueDesc(SortByValueDesc(SubSeq(entries, 1, Len(entries) - 1)),
                           entries[Len(entries)])

Slice(s, n) == SubSeq(s, 1, IF Len(s) < n THEN Len(s) ELSE n)

TOP_DURATIONS == 5

NonZeroEntry(e) == e[2] # 0

\* the table without the filter that drops the rows of zeros
PlatformClientTable_KeepsZeroRows(agg) ==
    LET sortedPlatforms == SortStrings(agg.allPlatforms)
        clients == SortStrings({k[1] : k \in ObjectKeys(agg.platformClient)})
        cells(c) == [j \in 1..Len(sortedPlatforms) |->
                        GetOr0(agg.platformClient, <<c, sortedPlatforms[j]>>)]
    IN  [header |-> <<Label("Client")>> \o sortedPlatforms,
         rows |-> [i \in 1..Len(clients) |-> <<clients[i], cells(clients[i])>>]]

PlatformClientTable(agg) ==
    LET sortedPlatforms == SortStrings(agg.allPlatforms)
        clients == SortStrings({k[1] : k \in ObjectKeys(agg.platformClient)})
        cells(c) == [j \in 1..Len(sortedPlatforms) |->
                        GetOr0(agg.platformClient, <<c, sortedPlatforms[j]>>)]
        rows == [i \in 1..Len(clients) |-> <<clients[i], cells(clients[i])>>]
        someNonZero(r) == \E j \in 1..Len(r[2]) : r[2][j] # 0
    IN  [header |-> <<Label("Client")>> \o sortedPlatforms,
         rows |-> SelectSeq(rows, someNonZero)]

\* the chart tables of an empty data array
EmptyCharts ==
    [platformClientCounts |-> [header |-> <<Label("Client")>>, rows |-> <<>>],
     frequencyByClient |->
         [header |-> <<Label("Client - Platform"), Label("Total Meta Budget")>>,
          rows |-> <<>>],
     currentMonthBudgets |->
         [header |-> <<Label("Ad Format"), Label("Budget")>>, rows |-> <<>>],
     campaignDurations |->
         [header |-> <<Label("Campaign Type"), Label("Total Duration (Days)")>>,
          rows |-> <<>>],
     campaignStatusCounts |->
         [header |-> <<Label("Status"), Label("Count")>>, rows |-> <<>>],
     monthlyBudgetByClient |->
         [header |-> <<Label("Client"), Label("Meta Budget")>>, rows |-> <<>>]]

\* the chart tables built from the aggregation maps
ChartTables(agg) ==
    [EmptyCharts EXCEPT
        !.platformClientCounts = PlatformClientTable(agg),
        !.frequencyByClient.rows = agg.frequencyByClient,
        !.currentMonthBudgets.rows = agg.monthlyBudget,
        !.campaignDurations.rows =
            Slice(SortByValueDesc(agg.campaignDurations), TOP_DURATIONS),
        !.campaignStatusCounts.rows = agg.campaignStatus,
        !.monthlyBudgetByClient.rows = SelectSeq(agg.monthlyBudgetByClient, NonZeroEntry)]

processDataForCharts(data, today) ==
    IF data = <<>>
    THEN EmptyCharts
    ELSE ChartTables(AggregateRows(EmptyAggregators, data, today))

(***************************************************************************)
(* Values a handler computes, caches and returns: one record shape for the *)
(* base payload, a search result list, an {error} payload, the success     *)
(* object of appendCodeToSheet and a thrown Error.                         *)
(***************************************************************************)

Value(kind, charts, clients, list, role, msg, row) ==
    [kind |-> kind, charts |-> charts, clients |-> clients, list |-> list,
     userName |-> <<>>, userRole |-> role, msg |-> msg, row |-> row]

NoValue == Value("none", EmptyCharts, <<>>, <<>>, "", "", 0)
BasePayload(charts, clients) == Value("base", charts, clients, <<>>, "", "", 0)
ListValue(list) == Value("list", EmptyCharts, <<>>, list, "", "", 0)
ErrorPayload(msg) == Value("error", EmptyCharts, <<>>, <<>>, "", msg, 0)
Thrown(msg) == Value("thrown", EmptyCharts, <<>>, <<>>, "", msg, 0)
Success(row) == Value("success", EmptyCharts, <<>>, <<>>, "", "submitted", row)

\* the role a Permissions row gives; null when no row matches
NoRole == "<null>"

(***************************************************************************)
(* The source sheet.  A row holds the cells of the columns of COLUMNS; the *)
(* entry column (ENTRY_COLUMN_INDEX, which is also COLUMNS.GUIDE_LINK) is  *)
(* the field guideLink.                                                    *)
(***************************************************************************)
BlankRow ==
    [campaignId |-> <<>>, client |-> <<>>, platform |-> <<>>, adFormat |-> <<>>,
     budget |-> BlankCell, campaignType |-> <<>>, status |-> <<>>,
     startDate |-> BlankCell, endDate |-> BlankCell, remarks |-> <<>>, guideLink |-> <<>>]

HeaderRow ==
    [campaignId |-> Label("Campaign ID"), client |-> Label("Client"),
     platform |-> Label("Platform"), adFormat |-> Label("Ad Format"),
     budget |-> TextCell(Label("Meta Budget")), campaignType |-> Label("Campaign Type"),
     status |-> Label("Status"), startDate |-> TextCell(Label("Start")),
     endDate |-> TextCell(Label("End")), remarks |-> Label("Remarks"),
     guideLink |-> Label("Guide Link")]

\* a campaign of the current month
CampaignRow ==
    [campaignId |-> Label("id1"), client |-> <<"a">>, platform |-> <<"b">>,
     adFormat |-> Label("Video"), budget |-> NumCell(100), campaignType |-> <<"a", "b">>,
     status |-> Label("Active"), startDate |-> DateCell(startOfMonth(Today)),
     endDate |-> DateCell(startOfMonth(Today) + 2), remarks |-> <<>>, guideLink |-> <<>>]

RowTemplates == {BlankRow, CampaignRow}

\* a campaign whose start date cell is empty
UndatedRow ==
    [CampaignRow EXCEPT !.campaignId = Label("id2"), !.status = Label("Paused"),
                        !.startDate = BlankCell]

\* a campaign of another client, ending later, whose budget is text
OtherRow ==
    [CampaignRow EXCEPT !.campaignId = Label("id3"), !.client = <<"c">>,
                        !.budget = TextCell(<<"$", "7">>),
                        !.endDate = DateCell(startOfMonth(Today) + 4)]

StoredRows == {BlankRow, CampaignRow, UndatedRow, OtherRow}

IsBlankRow(r) == r = BlankRow

\* getLastRow: the last row that has content
getLastRow(rows) ==
    IF \A i \in 1..Len(rows) : IsBlankRow(rows[i]) THEN 0
    ELSE CHOOSE i \in 1..Len(rows) :
            ~IsBlankRow(rows[i]) /\ \A j \in (i + 1)..Len(rows) : IsBlankRow(rows[j])

\* one row of rawData -> one structured object
SanitizeRow(r) ==
    [campaignId |-> r.campaignId, client |-> r.client, platform |-> r.platform,
     adFormat |-> r.adFormat, budget |-> toNumber(r.budget),
     campaignType |-> r.campaignType, status |-> r.status,
     startDate |-> safeDate(r.startDate), endDate |-> safeDate(r.endDate),
     remarks |-> r.remarks, guideLink |-> r.guideLink]

\* _getSheetData without the early return for a sheet that holds the header only:
\* getRange over zero rows raises, which the read path reports as an error
getSheetData_NoEmptyCase(exists, rows) ==
    IF ~exists \/ getLastRow(rows) <= 1 THEN [error |-> TRUE, data |-> <<>>]
    ELSE [error |-> FALSE,
          data |-> [i \in 1..(getLastRow(rows) - 1) |-> SanitizeRow(rows[i + 1])]]

\* _getSheetData: [error, data]
getSheetData(exists, rows) ==
    IF ~exists THEN [error |-> TRUE, data |-> <<>>]
    ELSE IF getLastRow(rows) <= 1 THEN [error |-> FALSE, data |-> <<>>]
    ELSE [error |-> FALSE,
          data |-> [i \in 1..(getLastRow(rows) - 1) |-> SanitizeRow(rows[i + 1])]]

\* buildBaseDashboardData
buildBaseDashboardData(exists, rows) ==
    LET sd == getSheetData(exists, rows)
        clients == {sd.data[i].client : i \in {j \in 1..Len(sd.data) : isNonEmpty(sd.data[j].client)}}
    IN  IF sd.error THEN ErrorPayload("Source sheet not found.")
        ELSE BasePayload(processDataForCharts(sd.data, Today), SortStrings(clients))

(***************************************************************************)
(* searchCampaignByType: filter, map, sort.                                *)
(***************************************************************************)
\* Utilities.formatDate(d, 'GMT', 'yyyy-MM-dd'), and '' for no date
formatDate(d) == IF d.t = "date" THEN [t |-> "ymd", n |-> d.n, s |-> <<>>] ELSE BlankCell

SearchRecord(row) ==
    [campaignId |-> row.campaignId, client |-> row.client, platform |-> row.platform,
     adFormat |-> row.adFormat, budget |-> row.budget, campaignType |-> row.campaignType,
     status |-> row.status, startDate |-> formatDate(row.startDate),
     endDate |-> formatDate(row.endDate), remarks |-> row.remarks,
     guideLink |-> row.guideLink, id |-> row.campaignId]

\* new Date(b.startDate) - new Date(a.startDate) > 0; with '' the difference is
\* NaN, which sort treats as 0
StartsLater(b, a) == a.startDate.t = "ymd" /\ b.startDate.t = "ymd" /\ b.startDate.n > a.startDate.n

RECURSIVE InsertByStartDesc(_, _)
InsertByStartDesc(sorted, e) ==
    IF sorted = <<>> THEN <<e>>
    ELSE IF StartsLater(e, sorted[Len(sorted)])
         THEN Append(InsertByStartDesc(SubSeq(sorted, 1, Len(sorted) - 1), e),
                     sorted[Len(sorted)])
         ELSE Append(sorted, e)

\* the elements of list inserted into sorted one after the other, first to last
RECURSIVE InsertAllByStartDesc(_, _)
InsertAllByStartDesc(sorted, list) ==
    IF Len(sorted) < 0 \/ list = <<>> THEN sorted
    ELSE IF Len(list) = 1 THEN InsertByStartDesc(sorted, list[1])
    ELSE InsertAllByStartDesc(
             InsertAllByStartDesc(sorted, SubSeq(list, 1, Len(list) \div 2)),
             SubSeq(list, Len(list) \div 2 + 1, Len(list)))

SortByStartDesc(list) == InsertAllByStartDesc(<<>>, list)

MatchesNeedle(row, needle) ==
    row.campaignType # <<>> /\ includes(toUpperCase(row.campaignType), needle)

SearchResults(data, needle) ==
    LET hits == SelectSeq(data, LAMBDA row : MatchesNeedle(row, needle))
    IN  SortByStartDesc([i \in 1..Len(hits) |-> SearchRecord(hits[i])])

(***************************************************************************)
(* JSON.stringify and JSON.parse.  A Date is written as text; the string   *)
(* under a cache key is either such a document or text that does not parse.*)
(***************************************************************************)
JsonCell(c) == IF c.t = "date" THEN [t |-> "string", n |-> c.n, s |-> <<"iso">>] ELSE c

JsonRecord(r) ==
    [r EXCEPT !.budget = JsonCell(@), !.startDate = JsonCell(@), !.endDate = JsonCell(@)]

JSON_stringify(v) ==
    [kind |-> "json",
     body |-> [v EXCEPT !.list = [i \in 1..Len(v.list) |-> JsonRecord(v.list[i])]]]

Garbage == [kind |-> "garbage", body |-> NoValue]

\* JSON.parse: [threw, value]
JSON_parse(str) ==
    IF str.kind = "json" THEN [threw |-> FALSE, value |-> str.body]
    ELSE [threw |-> TRUE, value |-> NoValue]

(***************************************************************************)
(* The document cache (CacheService): per key a string with its age and    *)
(* time to live.                                                           *)
(***************************************************************************)
NoEntry == [present |-> FALSE, str |-> Garbage, age |-> 0, ttl |-> 0]

\* cache.get: the string, or null once age >= ttl
CacheLive(e) == e.present /\ e.age < e.ttl

CachePut(c, k, str, ttl) ==
    [c EXCEPT ![k] = [present |-> TRUE, str |-> str, age |-> 0, ttl |-> ttl]]

CacheRemove(c, k) == [c EXCEPT ![k] = NoEntry]

(***************************************************************************)
(* The Permissions sheet and getUserRole.                                  *)
(***************************************************************************)
RECURSIVE FirstRole(_, _)
FirstRole(roles, userEmail) ==
    IF roles = <<>> THEN NoRole
    ELSE IF Head(roles)[1] # <<>> /\ toLowerCase(trim(Head(roles)[1])) = toLowerCase(userEmail)
         THEN Head(roles)[2]
         ELSE FirstRole(Tail(roles), userEmail)

\* getUserRole without roles.shift(): the header row is looked at like the others
getUserRole_HeaderIncluded(userEmail, perm) ==
    IF ~perm.exists THEN NoRole ELSE FirstRole(perm.rows, userEmail)

getUserRole(userEmail, perm) ==
    IF ~perm.exists THEN NoRole ELSE FirstRole(Tail(perm.rows), userEmail)

(***************************************************************************)
(* The inputs of the handlers.                                             *)
(***************************************************************************)
Procs == {"p1", "p2"}

\* the executions whose outcome is kept until Return; the outcome of any other
\* execution is dropped as it ends
Observed == {"p1"}

Users == {<<"a">>, <<"b">>, <<"c">>}

Codes == {<<"x">>, <<" ">>, <<>>}

Queries == {<<>>, <<" ">>, <<"a">>, <<"A", " ">>}

Needles == {toUpperCase(trim(q)) : q \in Queries} \ {<<>>}

CacheKeySearch(needle) == <<CACHE_KEY_SEARCH_PREFIX>> \o needle

CacheKeys == {CACHE_KEY_BASE_DATA} \cup {CacheKeySearch(n) : n \in Needles}

PermissionsTable ==
    [exists |-> TRUE,
     rows |-> << <<Label("Email"), "Role">>, <<<<" ", "A">>, "admin">>, <<<<"b">>, "Admin">> >>]

NoPermissions == [exists |-> FALSE, rows |-> <<>>]

\* the value of a variable whose script is not part of the deployment
NotDeployed == [deployed |-> FALSE]

VARIABLES
    app,            \* the deployed script: "app2" (app3 is the same code) or "app1"
    sourceExists,   \* getSheetByName(SOURCE_SHEET_NAME) finds the sheet
    sheetRows,      \* the rows of the source sheet, header first
    permissions,    \* the Permissions sheet
    cache,          \* the document cache
    exec,           \* per execution: where it stands and what it holds
    pivot,          \* the spreadsheet PivotTableBuilder works on, and its call
    dash            \* the document of the Full Dashboard script, and its runs

vars == <<app, sourceExists, sheetRows, permissions, cache, exec, pivot, dash>>

\* op: the handler; pc: the step the execution is at; user:
\* Session.getActiveUser().getEmail(); arg: the code or the needle; row:
\* firstEmptyRow; val: the value held or returned; srcRead, cacheGet, cachePut,
\* hit, caught: what the execution has done (read the source sheet, called
\* cache.get, called cache.put, got a hit, swallowed a throw of the cache); seen:
\* the rows buildBaseDashboardData read, while their payload waits for its put
Idle ==
    [op |-> "none", pc |-> "idle", user |-> <<>>, arg |-> <<>>, row |-> 0, val |-> NoValue,
     srcRead |-> FALSE, cacheGet |-> FALSE, cachePut |-> FALSE, hit |-> FALSE,
     caught |-> FALSE, seen |-> <<>>]

Init ==
    /\ app \in {"app2", "app1"}
    /\ sourceExists = TRUE
    /\ sheetRows = [i \in 1..MaxRows |-> IF i = 1 THEN HeaderRow ELSE BlankRow]
    /\ permissions \in {PermissionsTable, NoPermissions}
    /\ cache = [k \in CacheKeys |-> NoEntry]
    /\ exec = [p \in Procs |-> Idle]
    /\ pivot = NotDeployed
    /\ dash = NotDeployed

\* the execution p goes on as e
Step(p, e) == exec' = [exec EXCEPT ![p] = e]

\* the execution p ends as e
Finish(p, e) ==
    exec' = [exec EXCEPT ![p] = IF p \in Observed THEN [e EXCEPT !.pc = "done"] ELSE Idle]

(***************************************************************************)
(* appendCodeToSheet(code)                                                 *)
(***************************************************************************)
\* a validation that takes only the empty string for blank
IsBlankCode_EmptyOnly(code) == code = <<>>

\* !code || String(code).trim() === ''
IsBlankCode(code) == trim(code) = <<>>

\* a role check that lets every listed role through
isAdmin_AnyRole(role) == role # NoRole

\* userRole !== 'admin' is denied
isAdmin(role) == role = "admin"

\* getUserRole, the role check and the validation of the code
StartAppend(p, u, code) ==
    /\ app = "app2"
    /\ exec[p].pc = "idle"
    /\ LET e == [exec[p] EXCEPT !.op = "append", !.user = u]
       IN  IF ~isAdmin(getUserRole(u, permissions))
           THEN Finish(p, [e EXCEPT !.val = Thrown("Permission Denied")])
           ELSE IF IsBlankCode(code)
                THEN Finish(p, [e EXCEPT !.val = Thrown("Invalid input")])
                ELSE Step(p, [e EXCEPT !.pc = "a_read", !.arg = code])
    /\ UNCHANGED <<app, pivot, dash, sourceExists, sheetRows, permissions, cache>>

\* columnValues.findIndex(row => row[0] === '') + 1, or getLastRow() + 1
firstEmptyRow(rows) ==
    IF \E i \in 1..Len(rows) : rows[i].guideLink = <<>>
    THEN CHOOSE i \in 1..Len(rows) :
            rows[i].guideLink = <<>> /\ \A j \in 1..(i - 1) : rows[j].guideLink # <<>>
    ELSE getLastRow(rows) + 1

\* getSheetByName and the read of the entry column
AppendRead(p) ==
    /\ exec[p].pc = "a_read"
    /\ IF ~sourceExists
       THEN Finish(p, [exec[p] EXCEPT !.val = Thrown("Failed to append to sheet")])
       ELSE Step(p, [exec[p] EXCEPT !.pc = "a_write", !.row = firstEmptyRow(sheetRows)])
    /\ UNCHANGED <<app, pivot, dash, sourceExists, sheetRows, permissions, cache>>

\* sheet.getRange(firstEmptyRow, ENTRY_COLUMN_INDEX).setValue(code); a range
\* outside the grid, or a sheet deleted meanwhile, throws
AppendWrite(p) ==
    /\ exec[p].pc = "a_write"
    /\ IF sourceExists /\ exec[p].row <= Len(sheetRows)
       THEN /\ sheetRows' = [sheetRows EXCEPT ![exec[p].row].guideLink = exec[p].arg]
            /\ Step(p, [exec[p] EXCEPT !.pc = "a_inval"])
       ELSE /\ Finish(p, [exec[p] EXCEPT !.val = Thrown("Failed to append to sheet")])
            /\ UNCHANGED sheetRows
    /\ UNCHANGED <<app, pivot, dash, sourceExists, permissions, cache>>

\* the removal without its try and catch
invalidateDashboardCache_NoCatch(c) ==
    {[cache |-> CacheRemove(c, CACHE_KEY_BASE_DATA), threw |-> FALSE],
     [cache |-> c, threw |-> TRUE]}

\* invalidateDashboardCache: the outcomes of try { remove(base key) } catch (_) {}:
\* the cache afterwards and whether an error leaves the function
invalidateDashboardCache(c) ==
    {[cache |-> CacheRemove(c, CACHE_KEY_BASE_DATA), threw |-> FALSE],
     [cache |-> c, threw |-> FALSE]}

\* invalidateDashboardCache(), then the return; an error would be rethrown by the
\* catch of appendCodeToSheet
AppendInvalidate(p) ==
    /\ exec[p].pc = "a_inval"
    /\ \E o \in invalidateDashboardCache(cache) :
          /\ cache' = o.cache
          /\ Finish(p, [exec[p] EXCEPT !.val = IF o.threw
                                                THEN Thrown("Failed to append to sheet")
                                                ELSE Success(exec[p].row)])
    /\ UNCHANGED <<app, pivot, dash, sourceExists, sheetRows, permissions>>

(***************************************************************************)
(* getDashboardData()                                                      *)
(***************************************************************************)
\* cache.get(CACHE_KEY_BASE_DATA) and JSON.parse of a hit
StartDashboard(p) ==
    /\ app = "app2"
    /\ exec[p].pc = "idle"
    /\ LET e == cache[CACHE_KEY_BASE_DATA]
           x == [exec[p] EXCEPT !.op = "dashboard", !.cacheGet = TRUE]
       IN  \/ /\ CacheLive(e)
              /\ ~JSON_parse(e.str).threw
              /\ Step(p, [x EXCEPT !.pc = "d_role", !.hit = TRUE,
                                   !.val = JSON_parse(e.str).value])
           \/ /\ ~CacheLive(e)
              /\ Step(p, [x EXCEPT !.pc = "d_build"])
           \/ Step(p, [x EXCEPT !.pc = "d_fallback", !.caught = TRUE])
                                                   \* cache.get or JSON.parse throws
    /\ UNCHANGED <<app, pivot, dash, sourceExists, sheetRows, permissions, cache>>

\* a miss whose payload is put in the cache whether it is an error or not
DashboardBuild_CachesError(p) ==
    /\ exec[p].pc = "d_build"
    /\ Step(p, [exec[p] EXCEPT !.srcRead = TRUE, !.pc = "d_put", !.seen = sheetRows,
                               !.val = buildBaseDashboardData(sourceExists, sheetRows)])
    /\ UNCHANGED <<app, pivot, dash, sourceExists, sheetRows, permissions, cache>>

\* basePayload = buildBaseDashboardData() on a miss
DashboardBuild(p) ==
    /\ exec[p].pc = "d_build"
    /\ LET payload == buildBaseDashboardData(sourceExists, sheetRows)
           x == [exec[p] EXCEPT !.srcRead = TRUE, !.val = payload]
       IN  IF payload.kind = "error" THEN Finish(p, x)
           ELSE Step(p, [x EXCEPT !.pc = "d_put", !.seen = sheetRows])
    /\ UNCHANGED <<app, pivot, dash, sourceExists, sheetRows, permissions, cache>>

\* a put whose time to live is given in milliseconds
DashboardPut_TtlMillis(p) ==
    /\ exec[p].pc = "d_put"
    /\ cache' = CachePut(cache, CACHE_KEY_BASE_DATA, JSON_stringify(exec[p].val),
                         CACHE_EXP_SECONDS * 1000)
    /\ Step(p, [exec[p] EXCEPT !.pc = "d_role", !.cachePut = TRUE, !.seen = <<>>])
    /\ UNCHANGED <<app, pivot, dash, sourceExists, sheetRows, permissions>>

\* a put that stores the charts without the client list
DashboardPut_ChartsOnly(p) ==
    /\ exec[p].pc = "d_put"
    /\ cache' = CachePut(cache, CACHE_KEY_BASE_DATA,
                         JSON_stringify([exec[p].val EXCEPT !.clients = <<>>]),
                         CACHE_EXP_SECONDS)
    /\ Step(p, [exec[p] EXCEPT !.pc = "d_role", !.cachePut = TRUE, !.seen = <<>>])
    /\ UNCHANGED <<app, pivot, dash, sourceExists, sheetRows, permissions>>

\* cache.put(CACHE_KEY_BASE_DATA, JSON.stringify(basePayload), CACHE_EXP_SECONDS)
DashboardPut(p) ==
    /\ exec[p].pc = "d_put"
    /\ \/ /\ cache' = CachePut(cache, CACHE_KEY_BASE_DATA, JSON_stringify(exec[p].val),
                               CACHE_EXP_SECONDS)
          /\ Step(p, [exec[p] EXCEPT !.pc = "d_role", !.cachePut = TRUE, !.seen = <<>>])
       \/ /\ Step(p, [exec[p] EXCEPT !.pc = "d_fallback", !.cachePut = TRUE,
                                      !.caught = TRUE, !.seen = <<>>])  \* cache.put throws
          /\ UNCHANGED cache
    /\ UNCHANGED <<app, pivot, dash, sourceExists, sheetRows, permissions>>

\* a catch that hands the error of the cache on to the caller
DashboardFallback_Rethrows(p) ==
    /\ exec[p].pc = "d_fallback"
    /\ Finish(p, [exec[p] EXCEPT !.val = Thrown("cache")])
    /\ UNCHANGED <<app, pivot, dash, sourceExists, sheetRows, permissions, cache>>

\* catch (e) { basePayload = buildBaseDashboardData(); }
DashboardFallback(p) ==
    /\ exec[p].pc = "d_fallback"
    /\ LET payload == buildBaseDashboardData(sourceExists, sheetRows)
           x == [exec[p] EXCEPT !.srcRead = TRUE, !.val = payload]
       IN  IF payload.kind = "error" THEN Finish(p, x) ELSE Step(p, [x EXCEPT !.pc = "d_role"])
    /\ UNCHANGED <<app, pivot, dash, sourceExists, sheetRows, permissions, cache>>

\* the first name of the email, capitalised; 'User' for no email
userNameOf(email) ==
    IF email = <<>> THEN Label("User") ELSE <<UpperChar(Head(email))>> \o Tail(email)

\* { charts, clients, userName, userRole: getUserRole() }
DashboardResult(payload, email, perm) ==
    [payload EXCEPT !.kind = "dashboard", !.userName = userNameOf(email),
                    !.userRole = getUserRole(email, perm)]

\* the last step of getDashboardData with the role taken from a copy of the
\* Permissions sheet kept from an earlier time, not from the sheet as it is
DashboardRole_RememberedTable(p, u) ==
    /\ exec[p].pc = "d_role"
    /\ Finish(p, [exec[p] EXCEPT !.user = u,
                                 !.val = DashboardResult(exec[p].val, u, PermissionsTable)])
    /\ UNCHANGED <<app, pivot, dash, sourceExists, sheetRows, permissions, cache>>

\* Session.getActiveUser().getEmail() is read here, after the payload is there
DashboardRole(p, u) ==
    /\ exec[p].pc = "d_role"
    /\ Finish(p, [exec[p] EXCEPT !.user = u,
                                 !.val = DashboardResult(exec[p].val, u, permissions)])
    /\ UNCHANGED <<app, pivot, dash, sourceExists, sheetRows, permissions, cache>>

(***************************************************************************)
(* searchCampaignByType(campaignType)                                      *)
(***************************************************************************)
\* app2, app3: the blank query returns first; then _getSheetData, then the
\* filter over the rows read
StartSearch(p, q) ==
    /\ app = "app2"
    /\ exec[p].pc = "idle"
    /\ LET needle == toUpperCase(trim(q))
           sd == getSheetData(sourceExists, sheetRows)
           x == [exec[p] EXCEPT !.op = "search", !.srcRead = TRUE, !.arg = needle]
       IN  IF trim(q) = <<>>
           THEN Finish(p, [exec[p] EXCEPT !.op = "search", !.val = ListValue(<<>>)])
           ELSE IF sd.error
                THEN Finish(p, [x EXCEPT !.val = ErrorPayload("Source sheet not found.")])
                ELSE Step(p, [x EXCEPT !.pc = "s_get",
                                       !.val = ListValue(SearchResults(sd.data, needle))])
    /\ UNCHANGED <<app, pivot, dash, sourceExists, sheetRows, permissions, cache>>

\* app1: _getSheetData comes first, the blank needle second
StartSearchApp1(p, q) ==
    /\ app = "app1"
    /\ exec[p].pc = "idle"
    /\ LET needle == toUpperCase(trim(q))
           sd == getSheetData(sourceExists, sheetRows)
           x == [exec[p] EXCEPT !.op = "search", !.srcRead = TRUE, !.arg = needle]
       IN  IF sd.error
           THEN Finish(p, [x EXCEPT !.val = ErrorPayload("Source sheet not found.")])
           ELSE IF needle = <<>>
                THEN Finish(p, [x EXCEPT !.val = ListValue(<<>>)])
                ELSE Step(p, [x EXCEPT !.pc = "s_get",
                                       !.val = ListValue(SearchResults(sd.data, needle))])
    /\ UNCHANGED <<app, pivot, dash, sourceExists, sheetRows, permissions, cache>>

\* cache.get(ck) and JSON.parse of a hit; a throw of either is swallowed
SearchGet(p) ==
    /\ exec[p].pc = "s_get"
    /\ LET e == cache[CacheKeySearch(exec[p].arg)]
           x == [exec[p] EXCEPT !.cacheGet = TRUE]
       IN  \/ /\ CacheLive(e)
              /\ ~JSON_parse(e.str).threw
              /\ Finish(p, [x EXCEPT !.hit = TRUE, !.val = JSON_parse(e.str).value])
           \/ /\ ~CacheLive(e)
              /\ Step(p, [x EXCEPT !.pc = "s_put"])
           \/ Step(p, [x EXCEPT !.pc = "s_put", !.caught = TRUE])
                                                   \* cache.get or JSON.parse throws
    /\ UNCHANGED <<app, pivot, dash, sourceExists, sheetRows, permissions, cache>>

\* the put of searchCampaignByType without the slice: the whole list is stored
SearchPut_Uncapped(p) ==
    /\ exec[p].pc = "s_put"
    /\ \/ /\ cache' = CachePut(cache, CacheKeySearch(exec[p].arg),
                               JSON_stringify(ListValue(exec[p].val.list)),
                               SEARCH_EXP_SECONDS)
          /\ Finish(p, [exec[p] EXCEPT !.cachePut = TRUE])
       \/ /\ UNCHANGED cache
          /\ Finish(p, [exec[p] EXCEPT !.cachePut = TRUE, !.caught = TRUE])
    /\ UNCHANGED <<app, pivot, dash, sourceExists, sheetRows, permissions>>

\* cache.put(ck, JSON.stringify(sorted.slice(0, 300)), 30); return sorted
SearchPut(p) ==
    /\ exec[p].pc = "s_put"
    /\ \/ /\ cache' = CachePut(cache, CacheKeySearch(exec[p].arg),
                               JSON_stringify(ListValue(Slice(exec[p].val.list,
                                                              SEARCH_CACHE_CAP))),
                               SEARCH_EXP_SECONDS)
          /\ Finish(p, [exec[p] EXCEPT !.cachePut = TRUE])
       \/ /\ UNCHANGED cache      \* cache.put throws
          /\ Finish(p, [exec[p] EXCEPT !.cachePut = TRUE, !.caught = TRUE])
    /\ UNCHANGED <<app, pivot, dash, sourceExists, sheetRows, permissions>>

(***************************************************************************)
(* The end of an execution, the clock and the users of the spreadsheet.    *)
(***************************************************************************)
Return(p) ==
    /\ exec[p].pc = "done"
    /\ Step(p, Idle)
    /\ UNCHANGED <<app, pivot, dash, sourceExists, sheetRows, permissions, cache>>

\* an entry whose age reaches its time to live is gone
Aged(e) == IF e.present /\ e.age + TickSeconds < e.ttl
           THEN [e EXCEPT !.age = @ + TickSeconds]
           ELSE NoEntry

\* TickSeconds pass
Tick ==
    /\ \E k \in CacheKeys : cache[k].present
    /\ cache' = [k \in CacheKeys |-> Aged(cache[k])]
    /\ UNCHANGED <<app, pivot, dash, sourceExists, sheetRows, permissions, exec>>

\* a user of the spreadsheet edits a data row of the source sheet
EditableRows == {2}

EditSourceRow(i, t) ==
    /\ sourceExists
    /\ i \in EditableRows
    /\ sheetRows' = [sheetRows EXCEPT ![i] = [t EXCEPT !.guideLink = sheetRows[i].guideLink]]
    /\ sheetRows' # sheetRows
    /\ UNCHANGED <<app, pivot, dash, sourceExists, permissions, cache, exec>>

\* the source sheet is deleted or renamed, or comes back
ToggleSourceSheet ==
    /\ sourceExists' = ~sourceExists
    /\ UNCHANGED <<app, pivot, dash, sheetRows, permissions, cache, exec>>

Next ==
    \/ \E p \in Procs, u \in Users, code \in Codes : StartAppend(p, u, code)
    \/ \E p \in Procs : AppendRead(p)
    \/ \E p \in Procs : AppendWrite(p)
    \/ \E p \in Procs : AppendInvalidate(p)
    \/ \E p \in Procs : StartDashboard(p)
    \/ \E p \in Procs : DashboardBuild(p)
    \/ \E p \in Procs : DashboardPut(p)
    \/ \E p \in Procs : DashboardFallback(p)
    \/ \E p \in Procs, u \in Users : DashboardRole(p, u)
    \/ \E p \in Procs, q \in Queries : StartSearch(p, q)
    \/ \E p \in Procs, q \in Queries : StartSearchApp1(p, q)
    \/ \E p \in Procs : SearchGet(p)
    \/ \E p \in Procs : SearchPut(p)
    \/ \E p \in Procs : Return(p)
    \/ Tick
    \/ \E i \in EditableRows, t \in RowTemplates : EditSourceRow(i, t)
    \/ ToggleSourceSheet

Spec == Init /\ [][Next]_vars

\* no execution other than p is under way
Quiet(p) == \A q \in Procs \ {p} : exec[q].pc \in {"idle", "done"}

\* the same handlers when the calls do not overlap: a call starts only once
\* every other call has run to its end
NextSeq ==
    \/ \E p \in Procs, u \in Users, code \in Codes : Quiet(p) /\ StartAppend(p, u, code)
    \/ \E p \in Procs : AppendRead(p)
    \/ \E p \in Procs : AppendWrite(p)
    \/ \E p \in Procs : AppendInvalidate(p)
    \/ \E p \in Procs : Quiet(p) /\ StartDashboard(p)
    \/ \E p \in Procs : DashboardBuild(p)
    \/ \E p \in Procs : DashboardPut(p)
    \/ \E p \in Procs : DashboardFallback(p)
    \/ \E p \in Procs, u \in Users : DashboardRole(p, u)
    \/ \E p \in Procs, q \in Queries : Quiet(p) /\ StartSearch(p, q)
    \/ \E p \in Procs, q \in Queries : Quiet(p) /\ StartSearchApp1(p, q)
    \/ \E p \in Procs : SearchGet(p)
    \/ \E p \in Procs : SearchPut(p)
    \/ \E p \in Procs : Return(p)
    \/ Tick
    \/ \E i \in EditableRows, t \in RowTemplates : EditSourceRow(i, t)
    \/ ToggleSourceSheet

SpecSeq == Init /\ [][NextSeq]_vars

(***************************************************************************)
(* A long source sheet: as many campaigns of one type as the search cache  *)
(* keeps, or more.  One campaign near the end starts before the others,   *)
(* every entry cell but the first is filled, and the calls do not overlap. *)
(***************************************************************************)
CapExcess == 1     \* campaigns the longest sheet holds beyond SEARCH_CACHE_CAP

LongRow(i) ==
    [CampaignRow EXCEPT !.startDate = DateCell(startOfMonth(Today) +
                                                 IF i = SEARCH_CACHE_CAP THEN 0 ELSE 1),
                        !.guideLink = IF i = 2 THEN <<>> ELSE Label("code")]

LongSheet(n) == [i \in 1..(n + 1) |-> IF i = 1 THEN HeaderRow ELSE LongRow(i)]

InitLong ==
    /\ app \in {"app2", "app1"}
    /\ sourceExists = TRUE
    /\ sheetRows \in {LongSheet(n) : n \in {SEARCH_CACHE_CAP, SEARCH_CACHE_CAP + CapExcess}}
    /\ permissions = PermissionsTable
    /\ cache = [k \in CacheKeys |-> NoEntry]
    /\ exec = [p \in Procs |-> Idle]
    /\ pivot = NotDeployed
    /\ dash = NotDeployed

NextLong ==
    \/ \E p \in Procs, u \in Users, code \in Codes : Quiet(p) /\ StartAppend(p, u, code)
    \/ \E p \in Procs : AppendRead(p)
    \/ \E p \in Procs : AppendWrite(p)
    \/ \E p \in Procs : AppendInvalidate(p)
    \/ \E p \in Procs : Quiet(p) /\ StartDashboard(p)
    \/ \E p \in Procs : DashboardBuild(p)
    \/ \E p \in Procs : DashboardPut(p)
    \/ \E p \in Procs : DashboardFallback(p)
    \/ \E p \in Procs, u \in Users : DashboardRole(p, u)
    \/ \E p \in Procs, q \in Queries : Quiet(p) /\ StartSearch(p, q)
    \/ \E p \in Procs, q \in Queries : Quiet(p) /\ StartSearchApp1(p, q)
    \/ \E p \in Procs : SearchGet(p)
    \/ \E p \in Procs : SearchPut(p)
    \/ \E p \in Procs : Return(p)
    \/ Tick

SpecLong == InitLong /\ [][NextLong]_vars

(***************************************************************************)
(* The read handlers of app2, called by one client, over source sheets     *)
(* that exercise the aggregation: budgets that are zero or text,           *)
(* a second platform, and more campaign types than the duration chart      *)
(* keeps.                                                                  *)
(***************************************************************************)
MaxDays == 2       \* longest campaign, in days, of the sheets of many campaign types

\* a campaign of another client whose budget is the number 0
ZeroBudgetRow ==
    [CampaignRow EXCEPT !.campaignId = Label("id4"), !.client = <<"c">>,
                        !.adFormat = Label("Banner"), !.budget = NumCell(0)]

\* a campaign whose budget cell holds text without any digit
UnpricedRow ==
    [CampaignRow EXCEPT !.campaignId = Label("id5"), !.client = <<"d">>,
                        !.adFormat = Label("Story"),
                        !.budget = TextCell(<<"N", "/", "A">>)]

\* a campaign of the first client on a second platform
SecondPlatformRow ==
    [CampaignRow EXCEPT !.campaignId = Label("id6"), !.platform = <<"a">>,
                        !.budget = NumCell(50)]

BudgetRows == StoredRows \cup {ZeroBudgetRow, UnpricedRow, SecondPlatformRow}

BudgetSheets ==
    {[i \in 1..MaxRows |-> IF i = 1 THEN HeaderRow ELSE f[i]] :
        f \in [2..MaxRows -> BudgetRows]}

\* the campaign types of the rows of a sheet of many campaign types, top to bottom
CampaignTypes == <<<<"b">>, <<"a">>, <<"1", "0">>, <<"9">>, <<"c">>, <<"d">>, <<"b">>>>

TypedRow(i, days) ==
    [CampaignRow EXCEPT !.campaignType = CampaignTypes[i],
                        !.endDate = DateCell(startOfMonth(Today) + days)]

TypedSheets ==
    {[i \in 1..(Len(CampaignTypes) + 1) |->
         IF i = 1 THEN HeaderRow ELSE TypedRow(i - 1, f[i - 1])] :
        f \in [1..Len(CampaignTypes) -> 1..MaxDays]}

\* a campaign of the client "a - b" on the platform "c"
DashedClientRow ==
    [CampaignRow EXCEPT !.campaignId = Label("id7"), !.client = <<"a", " ", "-", " ", "b">>,
                        !.platform = <<"c">>]

\* a campaign of the client "a" on the platform "b - c"
DashedPlatformRow ==
    [CampaignRow EXCEPT !.campaignId = Label("id8"),
                        !.platform = <<"b", " ", "-", " ", "c">>, !.budget = NumCell(50)]

\* the sheets whose client or platform names hold " - "
DashedSheets ==
    {[i \in 1..MaxRows |-> IF i = 1 THEN HeaderRow
                           ELSE IF i = 2 THEN first
                           ELSE IF i = 3 THEN DashedPlatformRow ELSE BlankRow] :
        first \in {DashedClientRow, CampaignRow}}

InitAgg ==
    /\ app = "app2"
    /\ sourceExists = TRUE
    /\ sheetRows \in BudgetSheets \cup TypedSheets \cup DashedSheets
    /\ permissions = PermissionsTable
    /\ cache = [k \in CacheKeys |-> NoEntry]
    /\ exec = [p \in Procs |-> Idle]
    /\ pivot = NotDeployed
    /\ dash = NotDeployed

NextAgg ==
    \/ \E p \in Observed : StartDashboard(p)
    \/ \E p \in Observed : DashboardBuild(p)
    \/ \E p \in Observed : DashboardPut(p)
    \/ \E p \in Observed : DashboardFallback(p)
    \/ \E p \in Observed, u \in Users : DashboardRole(p, u)
    \/ \E p \in Observed, q \in Queries : StartSearch(p, q)
    \/ \E p \in Observed : SearchGet(p)
    \/ \E p \in Observed : SearchPut(p)
    \/ \E p \in Observed : Return(p)
    \/ Tick

SpecAgg == InitAgg /\ [][NextAgg]_vars

(***************************************************************************)
(* The handlers that ask for the caller's role, called by one client after *)
(* the other, while the Permissions sheet is edited between and during the *)
(* calls.                                                                  *)
(***************************************************************************)
PermissionRows ==
    {<<<<" ", "A">>, "admin">>, <<<<"b">>, "Admin">>, <<<<"a">>, "viewer">>,
     <<<<"A">>, "editor">>, <<<<>>, "admin">>}

\* the header row of the Permissions sheet: its labels, or what looks like a user row
PermissionHeaders == {<<Label("Email"), "Role">>, <<<<"a">>, "admin">>}

PermissionTables ==
    {[exists |-> TRUE, rows |-> <<h, r1, r2>>] :
        h \in PermissionHeaders, r1 \in PermissionRows, r2 \in PermissionRows}
    \cup {NoPermissions}

\* !!role
IsTruthy(role) == role # NoRole /\ role # ""

\* checkUserAccess()
checkUserAccess(p, u) ==
    /\ app = "app2"
    /\ exec[p].pc = "idle"
    /\ Finish(p, [exec[p] EXCEPT
                     !.op = "access", !.user = u,
                     !.val = Value("access", EmptyCharts, <<>>, <<>>, "",
                                   IF IsTruthy(getUserRole(u, permissions))
                                   THEN "true" ELSE "false", 0)])
    /\ UNCHANGED <<app, pivot, dash, sourceExists, sheetRows, permissions, cache>>

\* a user of the spreadsheet edits, removes or restores the Permissions sheet
EditPermissions(t) ==
    /\ permissions # t
    /\ permissions' = t
    /\ UNCHANGED <<app, pivot, dash, sourceExists, sheetRows, cache, exec>>

InitRoles ==
    /\ app = "app2"
    /\ sourceExists = TRUE
    /\ sheetRows = [i \in 1..MaxRows |-> IF i = 2 THEN CampaignRow
                                         ELSE IF i = 1 THEN HeaderRow ELSE BlankRow]
    /\ permissions \in PermissionTables
    /\ cache = [k \in CacheKeys |-> NoEntry]
    /\ exec = [p \in Procs |-> Idle]
    /\ pivot = NotDeployed
    /\ dash = NotDeployed

NextRoles ==
    \/ \E p \in Observed, u \in Users, code \in Codes : StartAppend(p, u, code)
    \/ \E p \in Observed : AppendRead(p)
    \/ \E p \in Observed : AppendWrite(p)
    \/ \E p \in Observed : AppendInvalidate(p)
    \/ \E p \in Observed, u \in Users : checkUserAccess(p, u)
    \/ \E p \in Observed : StartDashboard(p)
    \/ \E p \in Observed : DashboardBuild(p)
    \/ \E p \in Observed : DashboardPut(p)
    \/ \E p \in Observed : DashboardFallback(p)
    \/ \E p \in Observed, u \in Users : DashboardRole(p, u)
    \/ \E p \in Observed : Return(p)
    \/ Tick
    \/ \E t \in PermissionTables : EditPermissions(t)

SpecRoles == InitRoles /\ [][NextRoles]_vars

(***************************************************************************)
(* The read handlers alone, over a source sheet that nobody edits while    *)
(* they run: the sheet holds any rows of StoredRows from the start.        *)
(***************************************************************************)
InitReads ==
    /\ app \in {"app2", "app1"}
    /\ sourceExists \in BOOLEAN
    /\ sheetRows \in {[i \in 1..MaxRows |-> IF i = 1 THEN HeaderRow ELSE f[i]] :
                         f \in [2..MaxRows -> StoredRows]}
    /\ permissions = PermissionsTable
    /\ cache = [k \in CacheKeys |-> NoEntry]
    /\ exec = [p \in Procs |-> Idle]
    /\ pivot = NotDeployed
    /\ dash = NotDeployed

NextReads ==
    \/ \E p \in Procs : StartDashboard(p)
    \/ \E p \in Procs : DashboardBuild(p)
    \/ \E p \in Procs : DashboardPut(p)
    \/ \E p \in Procs : DashboardFallback(p)
    \/ \E p \in Procs, u \in Users : DashboardRole(p, u)
    \/ \E p \in Procs, q \in Queries : StartSearch(p, q)
    \/ \E p \in Procs, q \in Queries : StartSearchApp1(p, q)
    \/ \E p \in Procs : SearchGet(p)
    \/ \E p \in Procs : SearchPut(p)
    \/ \E p \in Procs : Return(p)
    \/ Tick

SpecReads == InitReads /\ [][NextReads]_vars

\* the string under a key is damaged in the cache: what cache.get then hands to
\* JSON.parse is no JSON text
CorruptCacheEntry(k) ==
    /\ cache[k].present
    /\ cache[k].str # Garbage
    /\ cache' = [cache EXCEPT ![k].str = Garbage]
    /\ UNCHANGED <<app, pivot, dash, sourceExists, sheetRows, permissions, exec>>

NextCorrupt ==
    \/ NextReads
    \/ \E k \in CacheKeys : CorruptCacheEntry(k)

\* the read handlers over a cache whose strings can be damaged
SpecCorrupt == InitReads /\ [][NextCorrupt]_vars

(***************************************************************************)
(* Properties of appendCodeToSheet.                                        *)
(***************************************************************************)
\* the entry column of the source sheet
EntryColumn(rows) == [i \in 1..Len(rows) |-> rows[i].guideLink]

\* the execution p is appendCodeToSheet past its role check
PastRoleCheck(p) == exec[p].pc \in {"a_read", "a_write", "a_inval"}

\* C1: appendCodeToSheet called by an identity whose role is absent or is not
\* exactly "admin" ends with Permission Denied, and that step writes no cell of
\* the source sheet and leaves the cache as it is; the Permissions sheet being
\* absent is such a case. Only an execution of an admin is ever past the role
\* check, and only such an execution changes the entry column.
C1_DeniedBeforeAnyWrite ==
    [][ /\ \A p \in Observed :
              ( /\ exec[p].pc = "idle"
                /\ exec'[p].op = "append"
                /\ getUserRole(exec'[p].user, permissions) # "admin" )
              => ( /\ exec'[p].pc = "done"
                   /\ exec'[p].val = Thrown("Permission Denied")
                   /\ sheetRows' = sheetRows
                   /\ cache' = cache )
        /\ \A p \in Procs :
              PastRoleCheck(p) => getUserRole(exec[p].user, permissions) = "admin"
        /\ EntryColumn(sheetRows') # EntryColumn(sheetRows)
              => \E p \in Procs : exec[p].pc = "a_write" /\ exec'[p].pc = "a_inval"
      ]_vars

\* C1, its case: the user b, whose role is "Admin" and not "admin", was denied
\* while the base entry of the cache stays where it was
C1_Witness ==
    /\ exec["p1"].pc = "done"
    /\ exec["p1"].op = "append"
    /\ exec["p1"].user = <<"b">>
    /\ exec["p1"].val = Thrown("Permission Denied")
    /\ permissions = PermissionsTable
    /\ cache[CACHE_KEY_BASE_DATA].present

\* C2, as stated, for calls that do not overlap (every entry in the cache was
\* then put before the append began): when appendCodeToSheet returns success,
\* no search-term entry is left in the cache
C2_AppendClearsSearchEntries ==
    [][ \A p \in Observed :
          ( /\ exec[p].pc = "a_inval"
            /\ exec'[p].pc = "done"
            /\ exec'[p].val.kind = "success" )
          => \A n \in Needles : ~cache'[CacheKeySearch(n)].present
      ]_vars

\* C3, as stated: two appendCodeToSheet executions that have both located their
\* row and not yet written hold different rows
C3_AppendsSelectDifferentRows ==
    \A p, q \in Procs :
        (p # q /\ exec[p].pc = "a_write" /\ exec[q].pc = "a_write")
        => exec[p].row # exec[q].row

(***************************************************************************)
(* Properties of processDataForCharts.                                     *)
(***************************************************************************)
\* the structured records _getSheetData reads now
SheetRecords ==
    LET sd == getSheetData(sourceExists, sheetRows)
    IN  {sd.data[i] : i \in 1..Len(sd.data)}

\* C4, as stated: a record whose start or end date is missing or invalid still
\* has its status counted in campaignStatusCounts when its status is present
C4_UndatedRowCountsStatus ==
    \A p \in Procs :
        exec[p].pc = "d_put"
        => \A r \in SheetRecords :
              (r.status # <<>> /\ (~isValidDate(r.startDate) \/ ~isValidDate(r.endDate)))
              => HasKey(exec[p].val.charts.campaignStatusCounts.rows, r.status)

(***************************************************************************)
(* Properties of the cache as getDashboardData and searchCampaignByType    *)
(* use it.                                                                 *)
(***************************************************************************)
BaseEntry == cache[CACHE_KEY_BASE_DATA]

\* C5: what getDashboardData puts under the base key, with 60 seconds to
\* live, parses back to the payload it held; an entry keeps its string as it
\* ages; a call served from the cache found an entry younger than 60 seconds
\* and holds what that entry parses to; a call that finds no live entry is
\* not served from the cache and goes on to build from the source sheet
C5_CacheRoundTripWithExpiry ==
    [][ /\ \A p \in Procs :
              /\ (exec[p].pc = "d_put" /\ exec'[p].pc = "d_role")
                 => ( /\ BaseEntry' = [present |-> TRUE,
                                        str |-> JSON_stringify(exec[p].val),
                                        age |-> 0, ttl |-> CACHE_EXP_SECONDS]
                      /\ JSON_parse(BaseEntry'.str) =
                             [threw |-> FALSE, value |-> exec[p].val] )
              /\ (exec[p].pc = "idle" /\ exec'[p].pc = "d_role")
                 => ( /\ BaseEntry.present
                      /\ BaseEntry.age < CACHE_EXP_SECONDS
                      /\ exec'[p].hit
                      /\ exec'[p].val = JSON_parse(BaseEntry.str).value )
              /\ ( /\ exec[p].pc = "idle"
                   /\ exec'[p].op = "dashboard"
                   /\ ~(BaseEntry.present /\ BaseEntry.age < BaseEntry.ttl) )
                 => (~exec'[p].hit /\ exec'[p].pc \in {"d_build", "d_fallback"})
              /\ (exec[p].pc \in {"d_build", "d_fallback"} /\ exec'[p].pc \in {"d_put", "d_role"})
                 => exec'[p].val = buildBaseDashboardData(sourceExists, sheetRows)
        /\ \A k \in CacheKeys :
              (cache'[k].present /\ cache'[k].age > 0)
              => ( /\ cache[k].present
                   /\ cache'[k].str = cache[k].str
                   /\ cache'[k].age < cache'[k].ttl )
      ]_vars

\* C5, its case: a getDashboardData was served the payload of a non-empty
\* sheet from an entry that is TickSeconds old
C5_Witness ==
    /\ exec["p1"].pc = "done"
    /\ exec["p1"].op = "dashboard"
    /\ exec["p1"].hit
    /\ exec["p1"].val.clients # <<>>
    /\ BaseEntry.present
    /\ BaseEntry.age = TickSeconds

PayloadOf(k) ==
    IF k = CACHE_KEY_BASE_DATA
    THEN buildBaseDashboardData(sourceExists, sheetRows)
    ELSE ListValue(Slice(SearchResults(getSheetData(sourceExists, sheetRows).data,
                                       SubSeq(k, 2, Len(k))),
                         SEARCH_CACHE_CAP))

\* the execution p holds a result it computed from the source sheet
Computed(p) == exec[p].srcRead /\ ~exec[p].hit

Recomputed(p) ==
    IF exec[p].op = "dashboard"
    THEN buildBaseDashboardData(sourceExists, sheetRows)
    ELSE ListValue(SearchResults(getSheetData(sourceExists, sheetRows).data, exec[p].arg))

C9_HitReadsNoSource ==
    \A p \in Procs : exec[p].hit => ~exec[p].srcRead

\* C10, as stated: searchCampaignByType with an empty or all-whitespace query
\* returns the empty list and has called neither cache.get nor cache.put nor
\* read the source sheet
C10_BlankQueryTouchesNothing ==
    \A p \in Observed :
        (exec[p].pc = "done" /\ exec[p].op = "search" /\ exec[p].arg = <<>>)
        => ( /\ exec[p].val = ListValue(<<>>)
             /\ ~exec[p].srcRead
             /\ ~exec[p].cacheGet
             /\ ~exec[p].cachePut )

(***************************************************************************)
(* C11.  What searchCampaignByType stores.                                 *)
(***************************************************************************)
SearchKeys == {CacheKeySearch(n) : n \in Needles}

\* no lower-case letter and no blank at either end
IsNormalisedTerm(t) ==
    /\ t # <<>>
    /\ t[1] # " " /\ t[Len(t)] # " "
    /\ \A i \in 1..Len(t) : t[i] = UpperChar(t[i])

\* later start dates come first
MostRecentFirst(list) ==
    \A i \in 1..(Len(list) - 1) :
        list[i].startDate.t = "ymd" /\ list[i + 1].startDate.t = "ymd"
            => list[i].startDate.n >= list[i + 1].startDate.n

\* the step of p stored a search entry
StoresSearchEntry(p) ==
    /\ exec[p].pc = "s_put"
    /\ exec'[p].pc = "done"
    /\ ~exec'[p].caught

StoredList(p) == JSON_parse(cache'[CacheKeySearch(exec[p].arg)].str).value.list

RECURSIVE SumOfBudgets(_, _, _)
SumOfBudgets(data, c, pl) ==
    IF data = <<>> THEN 0
    ELSE (IF Head(data).client = c /\ Head(data).platform = pl /\ Head(data).budget # NULL
          THEN Head(data).budget.n ELSE 0)
         + SumOfBudgets(Tail(data), c, pl)

\* the cell of client c under platform pl in platformClientCounts; 0 when the table
\* has no such row or column
TableCell(table, c, pl) ==
    IF /\ \E i \in 1..Len(table.rows) : table.rows[i][1] = c
       /\ \E j \in 2..Len(table.header) : table.header[j] = pl
    THEN (CHOOSE r \in {table.rows[i] : i \in 1..Len(table.rows)} : r[1] = c)[2]
             [(CHOOSE j \in 2..Len(table.header) : table.header[j] = pl) - 1]
    ELSE 0

FlatKey(c, pl) == c \o <<" ", "-", " ">> \o pl

\* C12, as stated: for every client c and platform pl that are present, the cell
\* (c, pl) of the client x platform table and the flat entry "c - pl" both equal the
\* sum of the budgets of the records with that client, that platform and a budget
C12_CellsSumPresentBudgets ==
    \A p \in Procs :
        exec[p].pc = "d_put"
        => LET data == getSheetData(sourceExists, sheetRows).data
           IN  \A r \in SheetRecords :
                  isNonEmpty(r.client) /\ isNonEmpty(r.platform)
                  => /\ TableCell(exec[p].val.charts.platformClientCounts,
                                   r.client, r.platform)
                           = SumOfBudgets(data, r.client, r.platform)
                     /\ GetOr0(exec[p].val.charts.frequencyByClient.rows,
                               FlatKey(r.client, r.platform))
                           = SumOfBudgets(data, r.client, r.platform)

(***************************************************************************)
(* C13.  The campaign-type duration list.                                  *)
(***************************************************************************)
\* the records the duration chart counts: two valid dates, a campaign type, a budget
CountsDuration(r) ==
    isValidDate(r.startDate) /\ isValidDate(r.endDate)
        /\ isNonEmpty(r.campaignType) /\ r.budget # NULL

RECURSIVE TypeTotal(_, _)
TypeTotal(data, t) ==
    IF data = <<>> THEN 0
    ELSE (IF CountsDuration(Head(data)) /\ Head(data).campaignType = t
          THEN Head(data).endDate.n - Head(data).startDate.n ELSE 0)
         + TypeTotal(Tail(data), t)

\* the position of the first record of data with campaign type t
FirstSeen(data, t) ==
    CHOOSE i \in 1..Len(data) :
        /\ CountsDuration(data[i]) /\ data[i].campaignType = t
        /\ \A j \in 1..(i - 1) : ~(CountsDuration(data[j]) /\ data[j].campaignType = t)

TopDurationsOf(data, rows) ==
    LET types == {data[i].campaignType : i \in {j \in 1..Len(data) : CountsDuration(data[j])}}
        listed == {rows[i][1] : i \in 1..Len(rows)}
    IN  /\ Len(rows) <= TOP_DURATIONS
        /\ Len(rows) = IF Cardinality(types) < TOP_DURATIONS
                       THEN Cardinality(types) ELSE TOP_DURATIONS
        /\ \A i \in 1..Len(rows) :
              rows[i][1] \in types /\ rows[i][2] = TypeTotal(data, rows[i][1])
        /\ \A t \in types \ listed :
              \A i \in 1..Len(rows) : TypeTotal(data, t) <= rows[i][2]
        /\ \A i, j \in 1..Len(rows) :
              i < j => /\ rows[i][2] >= rows[j][2]
                       /\ rows[i][2] = rows[j][2]
                             => FirstSeen(data, rows[i][1]) < FirstSeen(data, rows[j][1])

\* C13, as stated: the duration list has at most 5 entries, they are the 5 largest
\* summed durations in descending order, and campaign types of equal total appear
\* in the order in which the input first shows them
C13_TopFiveDurationsFirstSeen ==
    \A p \in Procs :
        exec[p].pc = "d_put"
        => TopDurationsOf(getSheetData(sourceExists, sheetRows).data,
                          exec[p].val.charts.campaignDurations.rows)

(***************************************************************************)
(* C14.  Zero entries of the two current-month budget tables.              *)
(***************************************************************************)
NoZeroEntry(table, header) ==
    /\ table.header = header
    /\ \A i \in 1..Len(table.rows) : table.rows[i][2] # 0

\* C14, as stated: in every result of processDataForCharts neither
\* monthlyBudgetByClient nor currentMonthBudgets has a data entry whose value is 0,
\* and both keep their header row
C14_NoZeroBudgetEntries ==
    \A p \in Procs :
        exec[p].pc = "d_put"
        => /\ NoZeroEntry(exec[p].val.charts.monthlyBudgetByClient,
                          <<Label("Client"), Label("Meta Budget")>>)
           /\ NoZeroEntry(exec[p].val.charts.currentMonthBudgets,
                          <<Label("Ad Format"), Label("Budget")>>)

(***************************************************************************)
(* C15.  The shape of the client x platform table.                         *)
(***************************************************************************)
\* the records the client x platform table counts
CountsPlatform(r) ==
    isValidDate(r.startDate) /\ isValidDate(r.endDate)
        /\ isNonEmpty(r.client) /\ isNonEmpty(r.platform) /\ r.budget # NULL

DenseTable(data, table) ==
    LET counted == SelectSeq(data, CountsPlatform)
        platforms == SubSeq(table.header, 2, Len(table.header))
    IN  /\ table.header # <<>> /\ table.header[1] = Label("Client")
        /\ \A j \in 1..(Len(platforms) - 1) : StrLess(platforms[j], platforms[j + 1])
        /\ {platforms[j] : j \in 1..Len(platforms)}
               = {counted[i].platform : i \in 1..Len(counted)}
        /\ \A i \in 1..Len(table.rows) :
              /\ Len(table.rows[i][2]) = Len(platforms)
              /\ \A j \in 1..Len(platforms) :
                    table.rows[i][2][j]
                        = SumOfBudgets(counted, table.rows[i][1], platforms[j])
              /\ \E j \in 1..Len(platforms) : table.rows[i][2][j] # 0
              /\ \A k \in 1..Len(table.rows) : table.rows[k][1] = table.rows[i][1] => k = i
        /\ \A i \in 1..Len(counted) :
              SumOfBudgets(counted, counted[i].client, counted[i].platform) # 0
                  => \E k \in 1..Len(table.rows) : table.rows[k][1] = counted[i].client

\* C15: the client x platform table of every result has the header Client followed
\* by the distinct platforms in ascending order, one cell per platform in every data
\* row (the client's budget on it, 0 where it has none), no data row of zeros only,
\* and its header also when no data row remains
C15_PlatformTableIsDense ==
    \A p \in Procs :
        exec[p].pc = "d_put"
        => DenseTable(getSheetData(sourceExists, sheetRows).data,
                      exec[p].val.charts.platformClientCounts)

\* a table of two clients and two platforms, each client zero-filled on one of them
C15_Witness ==
    \E p \in Procs :
        /\ exec[p].pc = "d_put"
        /\ Len(exec[p].val.charts.platformClientCounts.header) = 3
        /\ Len(exec[p].val.charts.platformClientCounts.rows) = 2
        /\ \A i \in 1..2 :
              \E j \in 1..2 : exec[p].val.charts.platformClientCounts.rows[i][2][j] = 0

(***************************************************************************)
(* C16.  The aggregation of no records.                                    *)
(***************************************************************************)
HeaderOnly(table, header) == table.header = header /\ table.rows = <<>>

AllHeaderOnly(charts) ==
    /\ HeaderOnly(charts.platformClientCounts, <<Label("Client")>>)
    /\ HeaderOnly(charts.frequencyByClient,
                  <<Label("Client - Platform"), Label("Total Meta Budget")>>)
    /\ HeaderOnly(charts.currentMonthBudgets, <<Label("Ad Format"), Label("Budget")>>)
    /\ HeaderOnly(charts.campaignDurations,
                  <<Label("Campaign Type"), Label("Total Duration (Days)")>>)
    /\ HeaderOnly(charts.campaignStatusCounts, <<Label("Status"), Label("Count")>>)
    /\ HeaderOnly(charts.monthlyBudgetByClient, <<Label("Client"), Label("Meta Budget")>>)

NoRecords == sourceExists /\ \A i \in 2..Len(sheetRows) : IsBlankRow(sheetRows[i])

\* C16: when the sheet holds no record, the dashboard built from it is a payload,
\* not an error, and every chart of it holds its header row only
C16_NoRecordsGiveHeadersOnly ==
    \A p \in Procs :
        exec[p].op = "dashboard" /\ exec[p].srcRead /\ NoRecords
        => /\ exec[p].val.kind \in {"base", "dashboard"}
           /\ AllHeaderOnly(exec[p].val.charts)

\* the dashboard was built from a sheet that holds its header row only
C16_Witness ==
    \E p \in Procs :
        /\ exec[p].op = "dashboard" /\ exec[p].srcRead /\ exec[p].pc = "d_put"
        /\ NoRecords
        /\ exec[p].val.clients = <<>>

(***************************************************************************)
(* C17.  toNumber of text without any numeric symbol.                      *)
(***************************************************************************)
\* a cell that holds non-blank text none of whose characters is a digit, a sign or a
\* point
IsNonNumericText(cell) ==
    /\ cell.t = "string"
    /\ trim(cell.s) # <<>>
    /\ \A i \in 1..Len(cell.s) : ~IsNumericChar(cell.s[i])

\* C17, as stated: a record read from a row whose budget cell holds such text has no
\* budget (null), never a number
C17_NonNumericTextIsNull ==
    \A p \in Procs :
        exec[p].op = "search" /\ exec[p].val.kind = "list"
        => \A i \in 1..Len(exec[p].val.list) :
              \A k \in 2..Len(sheetRows) :
                 /\ sheetRows[k].campaignId = exec[p].val.list[i].campaignId
                 /\ IsNonNumericText(sheetRows[k].budget)
                 => exec[p].val.list[i].budget = NULL

(***************************************************************************)
(* C18.  Which row of the Permissions sheet gives the role.                *)
(***************************************************************************)
\* the identity in a cell equals the caller's, letter case aside
ExactMatch(cell, user) == cell # <<>> /\ toLowerCase(cell) = toLowerCase(user)

\* the same once the blanks around the cell's text are dropped
TrimmedMatch(cell, user) == cell # <<>> /\ toLowerCase(trim(cell)) = toLowerCase(user)

\* the data rows of the sheet, by row number, whose identity is the caller's
ExactRows(perm, user) == {i \in 2..Len(perm.rows) : ExactMatch(perm.rows[i][1], user)}

TrimmedRows(perm, user) == {i \in 2..Len(perm.rows) : TrimmedMatch(perm.rows[i][1], user)}

\* the role in the first of the rows of the set hits; absent when there is none or
\* no sheet
RoleOfFirst(perm, hits) ==
    IF ~perm.exists \/ hits = {} THEN NoRole
    ELSE perm.rows[CHOOSE i \in hits : \A j \in hits : i <= j][2]

\* the step of getDashboardData that asks for the role of the caller
AsksRole(p) == exec[p].pc = "d_role" /\ exec'[p].pc = "done"

\* C18, as stated: the role is that of the first data row whose identity equals the
\* caller's under case-insensitive exact match, absent when there is none or no sheet
C18_FirstExactMatch ==
    [][\A p \in Procs :
          AsksRole(p)
          => exec'[p].val.userRole
                = RoleOfFirst(permissions, ExactRows(permissions, exec'[p].user))]_vars

\* C18, amended: the role is that of the first data row whose identity, with the
\* blanks around it dropped, equals the caller's identity letter case aside; it is
\* absent when no data row matches or the sheet does not exist, and the header row
\* is never matched
C18_FirstTrimmedMatch ==
    [][\A p \in Procs :
          AsksRole(p)
          => exec'[p].val.userRole
                = RoleOfFirst(permissions, TrimmedRows(permissions, exec'[p].user))]_vars

\* the caller's identity stands in the header row and in two data rows of different
\* roles, and the call returned the role of the first data row
C18_Witness ==
    \E p \in Procs :
        /\ exec[p].op = "dashboard" /\ exec[p].pc = "done"
        /\ exec[p].val.kind = "dashboard"
        /\ permissions.exists
        /\ TrimmedMatch(permissions.rows[1][1], exec[p].user)
        /\ TrimmedRows(permissions, exec[p].user) = {2, 3}
        /\ permissions.rows[2][2] # permissions.rows[3][2]
        /\ permissions.rows[2][2] # permissions.rows[1][2]
        /\ exec[p].val.userRole = permissions.rows[2][2]

(***************************************************************************)
(* C19.  The role is read from the Permissions sheet at every call.        *)
(***************************************************************************)
\* the role the Permissions sheet, as it is now, gives the caller of p
CurrentRole(p) == getUserRole(exec'[p].user, permissions)

\* C19: getDashboardData returns the role the sheet gives its caller at the moment
\* of the call, from a cache hit as from a miss; appendCodeToSheet is denied exactly
\* when that role is not admin, and checkUserAccess tells whether there is one; the
\* base payload in the cache carries neither a user name nor a role
C19_RoleIsReadAtEveryCall ==
    [][\A p \in Procs :
          /\ AsksRole(p) => exec'[p].val.userRole = CurrentRole(p)
          /\ exec[p].pc = "idle" /\ exec'[p].op = "append"
                => ((exec'[p].val.kind = "thrown" /\ exec'[p].val.msg = "Permission Denied")
                       <=> CurrentRole(p) # "admin")
          /\ exec[p].pc = "idle" /\ exec'[p].op = "access"
                => (exec'[p].val.msg = "true" <=> CurrentRole(p) \notin {NoRole, ""})
          /\ cache'[CACHE_KEY_BASE_DATA].present
                => /\ JSON_parse(cache'[CACHE_KEY_BASE_DATA].str).value.userRole = ""
                   /\ JSON_parse(cache'[CACHE_KEY_BASE_DATA].str).value.userName = <<>>
      ]_vars

\* a call served from the cache returned editor, the role of its caller in the
\* Permissions sheet as edited, for a caller who is admin in the sheet PermissionsTable
C19_Witness ==
    \E p \in Procs :
        /\ exec[p].op = "dashboard" /\ exec[p].pc = "done" /\ exec[p].hit
        /\ permissions.exists
        /\ getUserRole(exec[p].user, PermissionsTable) = "admin"
        /\ exec[p].val.userRole = "editor"
        /\ exec[p].val.userName # <<>>

(***************************************************************************)
(* C20.  The read handlers when the source sheet is missing.               *)
(***************************************************************************)
\* the step in which the execution p reads the source sheet
ReadsSource(p) == ~exec[p].srcRead /\ exec'[p].srcRead

\* C20: a read handler that finds no source sheet ends with an error payload, not a
\* throw, and leaves the cache as it is; no entry of the cache ever holds an error
\* payload, and no call served from the cache returns one
C20_MissingSourceIsAnUncachedError ==
    [][\A p \in Procs :
          /\ ReadsSource(p) /\ exec'[p].op \in {"dashboard", "search"} /\ ~sourceExists
                => /\ exec'[p].pc = "done"
                   /\ exec'[p].val.kind = "error"
                   /\ cache' = cache
          /\ exec'[p].op \in {"dashboard", "search"} => exec'[p].val.kind # "thrown"
          /\ exec'[p].op = "dashboard" /\ exec'[p].hit => exec'[p].val.kind # "error"
          /\ \A k \in CacheKeys :
                cache'[k].present => JSON_parse(cache'[k].str).value.kind \in {"base", "list"}
      ]_vars

\* getDashboardData found no source sheet and returned the error, nothing is cached
\* under the base key, and the sheet is there again
C20_Witness ==
    \E p \in Procs :
        /\ exec[p].op = "dashboard" /\ exec[p].pc = "done"
        /\ exec[p].val.kind = "error"
        /\ ~cache[CACHE_KEY_BASE_DATA].present
        /\ sourceExists

(***************************************************************************)
(* C21.  appendCodeToSheet of an admin with a blank code or without the    *)
(* source sheet.                                                           *)
(***************************************************************************)
\* C21: the call of an admin either goes on with a code that is not blank or ends
\* with the exception Invalid input; an execution that finds no source sheet ends
\* with the exception Failed to append to sheet; either step writes no cell and
\* leaves the cache as it is, and no execution with a blank code is ever past the
\* validation
C21_BlankCodeOrNoSheetThrowsUnwritten ==
    [][\A p \in Observed :
          /\ ( /\ exec[p].pc = "idle" /\ exec'[p].op = "append"
               /\ getUserRole(exec'[p].user, permissions) = "admin" )
             => \/ exec'[p].pc = "a_read" /\ trim(exec'[p].arg) # <<>>
                \/ /\ exec'[p].pc = "done"
                   /\ exec'[p].val = Thrown("Invalid input")
                   /\ sheetRows' = sheetRows /\ cache' = cache
          /\ PastRoleCheck(p) => trim(exec[p].arg) # <<>>
          /\ ( /\ exec[p].pc \in {"a_read", "a_write"} /\ exec'[p] # exec[p]
               /\ ~sourceExists )
             => /\ exec'[p].pc = "done"
                /\ exec'[p].val = Thrown("Failed to append to sheet")
                /\ sheetRows' = sheetRows /\ cache' = cache
      ]_vars

\* an admin's call found no source sheet and ended with the exception, while the
\* base entry of the cache is still there
C21_Witness ==
    /\ exec["p1"].op = "append" /\ exec["p1"].pc = "done"
    /\ exec["p1"].val = Thrown("Failed to append to sheet")
    /\ getUserRole(exec["p1"].user, permissions) = "admin"
    /\ ~sourceExists
    /\ cache[CACHE_KEY_BASE_DATA].present

(***************************************************************************)
(* PivotTableBuilder: createPivotTable and its column references.          *)
(***************************************************************************)
PivotWidth == 3        \* columns of the narrow source range
PivotWideWidth == 28   \* columns of the wide source range: it reaches column AB

\* a column reference of a config: null, a number, a string or something else
NullRef == [t |-> "null", n |-> 0, s |-> <<>>]

NumRef(n) == [t |-> "number", n |-> n, s |-> <<>>]

StrRef(s) == [t |-> "string", n |-> 0, s |-> s]

OtherRef == [t |-> "boolean", n |-> 0, s |-> <<>>]

\* what a resolution gives: an offset, or the Error it throws
Offset(n) == [ok |-> TRUE, offset |-> n, error |-> ""]

Fails(msg) == [ok |-> FALSE, offset |-> 0 - 1, error |-> msg]

\* map[name] = i for every non-blank trimmed header cell, a later cell replacing
\* an earlier one of the same name; i is 0-based
buildHeaderMap_(headerRowValues) ==
    [name \in {trim(headerRowValues[i]) : i \in 1..Len(headerRowValues)} \ {<<>>} |->
        (CHOOSE i \in 1..Len(headerRowValues) :
            /\ trim(headerRowValues[i]) = name
            /\ \A j \in (i + 1)..Len(headerRowValues) : trim(headerRowValues[j]) # name) - 1]

\* /^[A-Za-z]+$/
IsLetters(s) ==
    /\ s # <<>>
    /\ \A i \in 1..Len(s) : \/ CharCode(s[i]) \in 65..90
                            \/ CharCode(s[i]) \in 97..122

RECURSIVE letterToColIndex1_(_)
letterToColIndex1_(letters) ==
    IF letters = <<>> THEN 0
    ELSE letterToColIndex1_(SubSeq(letters, 1, Len(letters) - 1)) * 26
            + (CharCode(UpperChar(letters[Len(letters)])) - 64)

\* the offset of an absolute 1-based column inside the source range
OffsetInRange(absoluteColIndex, startColumn, numColumns) ==
    IF absoluteColIndex - startColumn < 0 \/ absoluteColIndex - startColumn >= numColumns
    THEN Fails("outside the source range")
    ELSE Offset(absoluteColIndex - startColumn)

colRefToOffset_(colRef, startColumn, numColumns, headerMap) ==
    CASE colRef.t = "null" -> Fails("Column reference is required.")
      [] colRef.t = "number" ->
            IF colRef.n < 1 THEN Fails("Column index must be 1-based.")
            ELSE OffsetInRange(colRef.n, startColumn, numColumns)
      [] colRef.t = "string" ->
            IF trim(colRef.s) \in DOMAIN headerMap THEN Offset(headerMap[trim(colRef.s)])
            ELSE IF IsLetters(trim(colRef.s))
                 THEN OffsetInRange(letterToColIndex1_(trim(colRef.s)), startColumn, numColumns)
                 ELSE Fails("Unknown column reference")
      [] OTHER -> Fails("Unsupported column reference type")

\* String(order).toUpperCase() of the words the configs hold
UpperWord(w) ==
    CASE w = "asc" -> "ASC"
      [] w = "desc" -> "DESC"
      [] w = "median" -> "MEDIAN"
      [] OTHER -> w

normalizeSortOrder_(order) ==
    IF order = "" THEN "ASCENDING"
    ELSE IF UpperWord(order) \in {"ASC", "ASCENDING"} THEN "ASCENDING"
    ELSE IF UpperWord(order) \in {"DESC", "DESCENDING"} THEN "DESCENDING"
    ELSE "Unsupported sortOrder"

SummarizeFunctions ==
    {"SUM", "COUNTA", "COUNT", "MAX", "MIN", "AVERAGE", "MEDIAN", "PRODUCT", "STDEV",
     "STDEVP", "VAR", "VARP", "CUSTOM"}

normalizeSummarizeFunction_(fn) ==
    IF fn = "" THEN "SUM"
    ELSE IF UpperWord(fn) \in SummarizeFunctions THEN UpperWord(fn)
    ELSE "Unsupported summarizeFunction"

\* toPivotGroup_(toOffset(spec.column), spec) and toPivotValue_(toOffset(spec.column),
\* spec): the reference is resolved first, then the word is normalised; word is the
\* sortOrder of a group and the summarizeFunction of a value
toPivotField(kind, spec, startColumn, headerRowValues) ==
    LET off == colRefToOffset_(spec.column, startColumn, Len(headerRowValues),
                               buildHeaderMap_(headerRowValues))
        word == IF kind = "value" THEN normalizeSummarizeFunction_(spec.word)
                ELSE normalizeSortOrder_(spec.word)
    IN  IF ~off.ok THEN off
        ELSE IF word \in {"Unsupported sortOrder", "Unsupported summarizeFunction"}
             THEN Fails(word)
             ELSE off

\* the first Error of rows.map, columns.map and values.map, in that order, if any
FirstFailure(fields) ==
    IF \E i \in 1..Len(fields) : ~fields[i].ok
    THEN fields[CHOOSE i \in 1..Len(fields) :
                    ~fields[i].ok /\ \A j \in 1..(i - 1) : fields[j].ok]
    ELSE Offset(0)

\* the header rows of the source range: the cells Ab, " b " and B, then blank cells
PivotHeader(width) ==
    [i \in 1..width |->
        CASE i = 1 -> <<"A", "b">> [] i = 2 -> <<" ", "b", " ">> [] i = 3 -> <<"B">>
          [] OTHER -> <<>>]

\* the header row where the name b stands twice
PivotHeaderTwice == << <<"b">>, <<"A", "b">>, <<"b">> >>

PivotHeaders == {PivotHeader(PivotWidth), PivotHeader(PivotWideWidth), PivotHeaderTwice}

ColumnRefs ==
    {NullRef, OtherRef, NumRef(0), NumRef(1), NumRef(3), NumRef(4), NumRef(PivotWideWidth + 1)}
    \cup {StrRef(s) : s \in {<<"A", "b">>, <<"a", "b">>, <<"A", "b", " ">>, <<"b">>, <<"B">>,
                             <<"A">>, <<"a", "a">>, <<"b", "a">>, <<"a", "-", "b">>, <<>>}}

\* a config whose every field resolves
GoodConfig ==
    [rows |-> <<[column |-> StrRef(<<"A", "b">>), word |-> "desc"]>>,
     columns |-> <<[column |-> StrRef(<<"b">>), word |-> "asc"]>>,
     values |-> <<[column |-> NumRef(1), word |-> "median"]>>]

\* the row groups of the configs
RowSpecs ==
    {[column |-> c, word |-> w] :
        c \in {NumRef(4), StrRef(<<"A", "b">>), StrRef(<<"a", "b">>), StrRef(<<"a", "-", "b">>)},
        w \in {"", "desc", "UP"}}

\* the configs: GoodConfig with one of its parts replaced
PivotConfigs ==
    {[GoodConfig EXCEPT !.rows = r] : r \in {<<>>} \cup {<<g>> : g \in RowSpecs}}
    \cup {[GoodConfig EXCEPT !.columns = c] :
             c \in {<<>>, <<[column |-> StrRef(<<"b">>), word |-> "sideways"]>>,
                    <<[column |-> NullRef, word |-> "asc"]>>}}
    \cup {[GoodConfig EXCEPT !.values = v] :
             v \in {<<>>, <<[column |-> NumRef(1), word |-> "MODE"]>>,
                    <<[column |-> StrRef(<<"a", "-", "b">>), word |-> ""]>>}}

\* the spreadsheet and what the last call did: source and destination: the sheets
\* exist; header and startColumn: the first row and the first column of
\* sourceRangeA1; ref, meant and resolved: the last reference given to
\* colRefToOffset_, what its writer meant by it and what it gave; config and outcome: the last config given to createPivotTable and
\* how the call ended; requests: the batchUpdate requests sent
InitPivot ==
    /\ app = "pivot"
    /\ sourceExists = TRUE
    /\ sheetRows = <<>>
    /\ permissions = NoPermissions
    /\ cache = [k \in CacheKeys |-> NoEntry]
    /\ exec = [p \in Procs |-> Idle]
    /\ dash = NotDeployed
    /\ \E h \in PivotHeaders, c \in {1, 2} :
          pivot = [source |-> TRUE, destination |-> FALSE, header |-> h, startColumn |-> c,
                   ref |-> NullRef, meant |-> "none", resolved |-> Offset(0),
                   called |-> "none",
                   config |-> [rows |-> <<>>, columns |-> <<>>, values |-> <<>>],
                   outcome |-> Offset(0), created |-> FALSE, requests |-> 0]

PivotRest == UNCHANGED <<app, sourceExists, sheetRows, permissions, cache, exec, dash>>

\* what the writer of a config can mean by a reference: the code is not told
Meanings(colRef) ==
    CASE colRef.t = "number" -> {"index"}
      [] colRef.t = "string" ->
            {"name"} \cup (IF IsLetters(trim(colRef.s)) THEN {"letter"} ELSE {})
      [] OTHER -> {"none"}

\* toOffset(colRef) on the source range as it stands
ResolveColumn(colRef, meant) ==
    /\ pivot' = [pivot EXCEPT
                    !.meant = meant,
                    !.called = "colRefToOffset_",
                    !.config = [rows |-> <<>>, columns |-> <<>>, values |-> <<>>],
                    !.outcome = Offset(0),
                    !.created = FALSE,
                    !.ref = colRef,
                    !.resolved = colRefToOffset_(colRef, pivot.startColumn, Len(pivot.header),
                                                 buildHeaderMap_(pivot.header))]
    /\ PivotRest

\* what the fields of a config resolve to, rows first, then columns, then values
PivotFields(config, startColumn, header) ==
    [i \in 1..Len(config.rows) |-> toPivotField("group", config.rows[i], startColumn, header)]
    \o [i \in 1..Len(config.columns) |->
           toPivotField("group", config.columns[i], startColumn, header)]
    \o [i \in 1..Len(config.values) |->
           toPivotField("value", config.values[i], startColumn, header)]

MaxRequests == 1   \* batchUpdate requests after which no further call is made

\* how a call of createPivotTable ends: failure is the first Error of its fields,
\* ensured says that ensureSheet_ was reached
PivotCallEnds(config, failure, ensured) ==
    pivot' = [pivot EXCEPT
                 !.called = "createPivotTable",
                 !.ref = NullRef,
                 !.meant = "none",
                 !.resolved = Offset(0),
                 !.config = config,
                 !.outcome = IF ~pivot.source THEN Fails("Source sheet not found") ELSE failure,
                 !.created = ensured /\ ~pivot.destination,
                 !.destination = @ \/ ensured,
                 !.requests = IF pivot.source /\ failure.ok THEN @ + 1 ELSE @]

createPivotTable(config) ==
    /\ pivot.requests < MaxRequests
    /\ PivotCallEnds(config, FirstFailure(PivotFields(config, pivot.startColumn, pivot.header)),
                     pivot.source)
    /\ PivotRest

\* a user of the spreadsheet deletes or restores the source sheet, or deletes the
\* destination sheet
EditPivotSheets ==
    /\ \/ pivot' = [pivot EXCEPT !.source = ~@, !.called = "none", !.created = FALSE]
       \/ /\ pivot.destination
          /\ pivot' = [pivot EXCEPT !.destination = FALSE, !.called = "none",
                                    !.created = FALSE]
    /\ PivotRest

NextPivot ==
    \/ \E colRef \in ColumnRefs : \E meant \in Meanings(colRef) : ResolveColumn(colRef, meant)
    \/ \E config \in PivotConfigs : createPivotTable(config)
    \/ EditPivotSheets

\* PivotTableBuilder over one spreadsheet
SpecPivot == InitPivot /\ [][NextPivot]_vars

(***************************************************************************)
(* C22: colRefToOffset_.                                                   *)
(***************************************************************************)
\* the cells of the header row that hold a name and are the reference, character
\* for character
NamedCells(header, s) == {i \in 1..Len(header) : trim(header[i]) # <<>> /\ header[i] = s}

\* C22: colRefToOffset_ gives only offsets inside the source range; a reference
\* meant as a 1-based index or as a column letter (base 26) resolves to that column
\* when the column is inside the source range and fails otherwise; a reference meant
\* as a header name resolves to a cell of the header row that holds exactly that
\* name, and fails when no cell of the header row holds it: a name absent from the
\* header row is never resolved to a column
C22_ResolvesAsGiven ==
    pivot.called = "colRefToOffset_" =>
        /\ pivot.resolved.ok => pivot.resolved.offset \in 0..(Len(pivot.header) - 1)
        /\ pivot.meant = "none" => ~pivot.resolved.ok
        /\ pivot.meant = "index" =>
              pivot.resolved = IF pivot.ref.n - pivot.startColumn \in 0..(Len(pivot.header) - 1)
                               THEN Offset(pivot.ref.n - pivot.startColumn)
                               ELSE IF pivot.ref.n < 1 THEN Fails("Column index must be 1-based.")
                               ELSE Fails("outside the source range")
        /\ pivot.meant = "letter" =>
              pivot.resolved = OffsetInRange(letterToColIndex1_(trim(pivot.ref.s)),
                                             pivot.startColumn, Len(pivot.header))
        /\ pivot.meant = "name" =>
              IF NamedCells(pivot.header, pivot.ref.s) # {}
              THEN /\ pivot.resolved.ok
                   /\ pivot.resolved.offset + 1 \in NamedCells(pivot.header, pivot.ref.s)
              ELSE ~pivot.resolved.ok

(***************************************************************************)
(* C30: createPivotTable.                                                  *)
(***************************************************************************)
\* C30: a call of createPivotTable that throws (no source sheet, a reference that
\* does not resolve, an unsupported sortOrder or summarizeFunction) has sent no
\* batchUpdate request and has left the spreadsheet as it was: it has not created
\* the destination sheet
C30_ThrowsWithoutChange ==
    [][(pivot'.called = "createPivotTable" /\ ~pivot'.outcome.ok)
          => /\ pivot'.requests = pivot.requests
             /\ pivot'.source = pivot.source
             /\ pivot'.destination = pivot.destination]_vars

(***************************************************************************)
(* C23: a miss of getDashboardData against an append.                      *)
(***************************************************************************)
\* the append of q has written its code, has invalidated and has returned success,
\* and the cell still holds the code
AppendCompleted(q) ==
    /\ exec[q].op = "append" /\ exec[q].pc = "done"
    /\ exec[q].val = Success(exec[q].row)
    /\ sourceExists
    /\ sheetRows[exec[q].row].guideLink = exec[q].arg

\* C23: once an append has completed its invalidation, no getDashboardData puts
\* under the base key a payload built from rows read before the write of that
\* append: the rows a put's payload was built from hold the appended code
C23_NoStalePutAfterInvalidation ==
    [][\A p \in Procs : \A q \in Observed \ {p} :
          ( /\ exec[p].pc = "d_put" /\ exec'[p].pc = "d_role"
            /\ AppendCompleted(q) )
          => exec[p].seen[exec[q].row].guideLink = exec[q].arg
      ]_vars

(***************************************************************************)
(* C24: a hit of searchCampaignByType against a miss.                      *)
(***************************************************************************)
\* the entry under the key of p's needle is the one a miss stores for the list p
\* has computed from the rows it read: the source table is as it was at the put
EntryOfThisTable(p) ==
    cache[CacheKeySearch(exec[p].arg)].str
        = JSON_stringify(ListValue(Slice(exec[p].val.list, SEARCH_CACHE_CAP)))

\* C24: a call served from the cache, over the source table the entry was stored
\* for, returns the list the same call computes from the table on a miss, whatever
\* the number of matching records
C24_HitEqualsMiss ==
    [][\A p \in Observed :
          ( /\ exec[p].op = "search" /\ exec[p].pc = "s_get"
            /\ exec'[p].hit
            /\ EntryOfThisTable(p) )
          => exec'[p].val = exec[p].val
      ]_vars

(***************************************************************************)
(* C29: the flat "client - platform" table against the pairs.              *)
(***************************************************************************)
\* the (client, platform) pairs that have an accumulated budget
BudgetPairs(data) ==
    {<<data[i].client, data[i].platform>> : i \in {j \in 1..Len(data) : CountsPlatform(data[j])}}

\* C29: the flat client - platform table of every result has exactly one entry for
\* every (client, platform) pair that has an accumulated budget, under the key
\* "client - platform", and the entry holds the budgets of that pair alone
C29_OneFlatEntryPerPair ==
    \A p \in Procs :
        exec[p].pc = "d_put"
        => /\ Len(exec[p].val.charts.frequencyByClient.rows)
                  = Cardinality(BudgetPairs(getSheetData(sourceExists, sheetRows).data))
           /\ \A pair \in BudgetPairs(getSheetData(sourceExists, sheetRows).data) :
                 GetOr0(exec[p].val.charts.frequencyByClient.rows, FlatKey(pair[1], pair[2]))
                     = SumOfBudgets(SelectSeq(getSheetData(sourceExists, sheetRows).data,
                                              CountsPlatform),
                                    pair[1], pair[2])

(***************************************************************************)
(* The Full Dashboard script: createFullDashboard under the document lock, *)
(* its throttle and the aggregate cache in the document properties.  The   *)
(* rows of the source sheet are reduced to their client and frequency      *)
(* columns; the two budget charts are left out.                            *)
(***************************************************************************)
THROTTLE_MS == 30000

CACHE_TTL_MS == 60000

TickMillis == 30000    \* milliseconds by which one tick advances the clock
StartMillis == 90000   \* Date.now() at the start
MaxTicks == 2          \* ticks of the clock

Runs == {"r1", "r2"}

\* aggregates of no rows; allFrequencies is a Set, its items in insertion order
EmptyAggregates ==
    [clientCounts |-> <<>>,
     frequencyCounts |-> [clients |-> <<>>,
                          allFrequencies |-> [kind |-> "Set", items |-> <<>>]]]

\* client && typeof client === 'string' && client.trim().toUpperCase() !== 'N/A'
IsNamed(client) == client # <<>> /\ toUpperCase(trim(client)) # <<"N", "/", "A">>

\* allFrequencies.add(frequency)
SetAdd(set, v) ==
    IF \E i \in 1..Len(set.items) : set.items[i] = v THEN set
    ELSE [set EXCEPT !.items = Append(@, v)]

\* one row of data.forEach in processDataForCharts of the Full Dashboard script
AggregateDashboardRow(agg, row) ==
    [clientCounts |-> IF IsNamed(row.client) THEN AddTo(agg.clientCounts, row.client, 1)
                      ELSE agg.clientCounts,
     frequencyCounts |->
        IF IsNamed(row.client) /\ row.frequency # <<>>
        THEN [clients |-> AddToCell(agg.frequencyCounts.clients, row.client, row.frequency, 1),
              allFrequencies |-> SetAdd(agg.frequencyCounts.allFrequencies, row.frequency)]
        ELSE agg.frequencyCounts]

RECURSIVE AggregateDashboardRows(_, _)
AggregateDashboardRows(agg, data) ==
    IF data = <<>> THEN agg
    ELSE AggregateDashboardRows(AggregateDashboardRow(agg, Head(data)), Tail(data))

\* processDataForCharts(data) of the Full Dashboard script
processDataForChartsApp4(data) == AggregateDashboardRows(EmptyAggregates, data)

\* JSON.stringify(agg): a Set has no enumerable property and is written as {}
StringifyAggregates(agg) ==
    [json |-> [agg EXCEPT !.frequencyCounts.allFrequencies =
                               [kind |-> "Object", items |-> <<>>]]]

\* JSON.parse(cached)
ParseAggregates(str) == str.json

NoString == [json |-> EmptyAggregates]

\* Array.from(allFrequencies): the items of a Set, nothing of an object without length
ArrayFrom(x) == IF x.kind = "Set" THEN x.items ELSE <<>>

RECURSIVE FirstOccurrences(_)
FirstOccurrences(list) ==
    IF list = <<>> THEN <<>>
    ELSE LET init == FirstOccurrences(SubSeq(list, 1, Len(list) - 1))
         IN  IF \E i \in 1..Len(init) : init[i] = list[Len(list)] THEN init
             ELSE Append(init, list[Len(list)])

\* the chartData of buildFrequencyByClientChart: the header row, then one row per
\* client with clients[client][freq] || 0 under every frequency of the header
buildFrequencyByClientChart(frequencyData) ==
    LET freqArray == ArrayFrom(frequencyData.allFrequencies)
        names == FirstOccurrences([i \in 1..Len(frequencyData.clients) |->
                                      frequencyData.clients[i][1][1]])
    IN  <<<<Label("Client")>> \o freqArray>>
        \o [i \in 1..Len(names) |->
               <<names[i]>> \o [j \in 1..Len(freqArray) |->
                                   GetOr0(frequencyData.clients, <<names[i], freqArray[j]>>)]]

\* what the rebuild writes on the dashboard sheet
DashboardCharts(agg) ==
    [clientChart |-> agg.clientCounts,
     frequencyChart |-> buildFrequencyByClientChart(agg.frequencyCounts)]

ClearedCharts == [clientChart |-> <<>>, frequencyChart |-> <<>>]

\* getAggregatesWithCache(data) at the time now over the properties props:
\* [agg, hit, props]
getAggregatesWithCache(data, now, props) ==
    IF now - props.AGG_CACHE_TS < CACHE_TTL_MS /\ props.AGG_CACHE_JSON.present
    THEN [agg |-> ParseAggregates(props.AGG_CACHE_JSON.str), hit |-> TRUE, props |-> props]
    ELSE [agg |-> processDataForChartsApp4(data), hit |-> FALSE,
          props |-> [props EXCEPT
                        !.AGG_CACHE_TS = now,
                        !.AGG_CACHE_JSON =
                            [present |-> TRUE,
                             str |-> StringifyAggregates(processDataForChartsApp4(data))]]]

\* the rows of the source sheet below the header
DailyRow == [client |-> <<"a">>, frequency |-> Label("Daily")]

WeeklyRow == [client |-> <<"b">>, frequency |-> Label("Weekly")]

UnnamedRow == [client |-> <<"n", "/", "a">>, frequency |-> Label("Daily")]

SourceData == {<<>>, <<DailyRow>>, <<WeeklyRow, UnnamedRow, DailyRow, WeeklyRow>>}

\* a run that is not under way
NoRun ==
    [pc |-> "idle", now |-> 0, data |-> <<>>, agg |-> EmptyAggregates, hit |-> FALSE,
     outcome |-> "none"]

\* now: Date.now(); lock: the run that holds the document lock; props: the document
\* properties, 0 for a number that is not set; source: the source sheet and its data
\* rows; dashboard, pivotTable: the two sheets the rebuild writes; run: per run of
\* createFullDashboard its step, the time it read, the rows it read, the aggregates
\* it holds and how it ended
InitDash ==
    /\ app = "dashboard"
    /\ sourceExists = TRUE
    /\ sheetRows = <<>>
    /\ permissions = NoPermissions
    /\ cache = [k \in CacheKeys |-> NoEntry]
    /\ exec = [p \in Procs |-> Idle]
    /\ pivot = NotDeployed
    /\ dash = [now |-> StartMillis,
               lock |-> "none",
               props |-> [LAST_DASHBOARD_RUN |-> 0, AGG_CACHE_TS |-> 0,
                          AGG_CACHE_JSON |-> [present |-> FALSE, str |-> NoString]],
               source |-> [exists |-> TRUE, data |-> <<DailyRow>>],
               dashboard |-> [exists |-> FALSE, charts |-> ClearedCharts],
               pivotTable |-> [exists |-> FALSE, built |-> 0],
               run |-> [r \in Runs |-> NoRun]]

DashRest == UNCHANGED <<app, sourceExists, sheetRows, permissions, cache, exec, pivot>>

\* lock.tryLock(5000): the lock is taken when it is free; when another run holds it
\* through the five seconds the call logs and returns
TryLock(r) ==
    /\ dash.run[r].pc = "idle"
    /\ IF dash.lock = "none"
       THEN dash' = [dash EXCEPT !.lock = r,
                                 !.run[r] = [NoRun EXCEPT !.pc = "locked"]]
       ELSE dash' = [dash EXCEPT !.run[r] = [NoRun EXCEPT !.outcome = "lock not acquired"]]
    /\ DashRest

\* a throttled run that returns without the finally: the lock stays taken
CheckAndRead_KeepsLock(r) ==
    /\ dash.run[r].pc = "locked"
    /\ IF dash.now - dash.props.LAST_DASHBOARD_RUN < THROTTLE_MS
       THEN dash' = [dash EXCEPT !.run[r] = [NoRun EXCEPT !.outcome = "throttled"]]
       ELSE IF ~dash.source.exists
       THEN dash' = [dash EXCEPT !.run[r].pc = "release",
                                 !.run[r].outcome = "failed: source sheet not found"]
       ELSE IF dash.source.data = <<>>
       THEN dash' = [dash EXCEPT !.run[r].pc = "release",
                                 !.run[r].outcome = "failed: no data rows",
                                 !.dashboard = [exists |-> TRUE, charts |-> ClearedCharts]]
       ELSE dash' = [dash EXCEPT !.run[r].now = dash.now, !.run[r].pc = "aggregate",
                                 !.run[r].data = dash.source.data,
                                 !.dashboard = [exists |-> TRUE, charts |-> ClearedCharts]]
    /\ DashRest

\* the throttle, the source sheet, the dashboard sheet cleared or inserted, the
\* check for data rows and the read of the data
CheckAndRead(r) ==
    /\ dash.run[r].pc = "locked"
    /\ IF dash.now - dash.props.LAST_DASHBOARD_RUN < THROTTLE_MS
       THEN dash' = [dash EXCEPT !.run[r].pc = "release", !.run[r].outcome = "throttled"]
       ELSE IF ~dash.source.exists
       THEN dash' = [dash EXCEPT !.run[r].pc = "release",
                                 !.run[r].outcome = "failed: source sheet not found"]
       ELSE IF dash.source.data = <<>>
       THEN dash' = [dash EXCEPT !.run[r].pc = "release",
                                 !.run[r].outcome = "failed: no data rows",
                                 !.dashboard = [exists |-> TRUE, charts |-> ClearedCharts]]
       ELSE dash' = [dash EXCEPT !.run[r].now = dash.now, !.run[r].pc = "aggregate",
                                 !.run[r].data = dash.source.data,
                                 !.dashboard = [exists |-> TRUE, charts |-> ClearedCharts]]
    /\ DashRest

\* aggregates = getAggregatesWithCache(data)
Aggregate(r) ==
    /\ dash.run[r].pc = "aggregate"
    /\ dash' = [dash EXCEPT
                   !.run[r].pc = "render",
                   !.run[r].agg = getAggregatesWithCache(dash.run[r].data, dash.now,
                                                         dash.props).agg,
                   !.run[r].hit = getAggregatesWithCache(dash.run[r].data, dash.now,
                                                         dash.props).hit,
                   !.props = getAggregatesWithCache(dash.run[r].data, dash.now,
                                                    dash.props).props]
    /\ DashRest

\* how the rest of a rebuild can go: every call succeeds, a chart builder throws, or
\* createSummaryPivotTable catches an error of its own
Fates == {"rebuilt", "failed: chart", "rebuilt, pivot table failed"}

\* the four chart builders, createSummaryPivotTable, activate and
\* props.setProperty('LAST_DASHBOARD_RUN', String(now))
Render(r, fate) ==
    /\ dash.run[r].pc = "render"
    /\ IF fate = "failed: chart"
       THEN dash' = [dash EXCEPT !.run[r].pc = "release", !.run[r].outcome = fate]
       ELSE dash' = [dash EXCEPT
                        !.run[r].pc = "release",
                        !.run[r].outcome = fate,
                        !.dashboard.charts = DashboardCharts(dash.run[r].agg),
                        !.pivotTable = IF fate = "rebuilt"
                                       THEN [exists |-> TRUE, built |-> 1]
                                       ELSE [exists |-> TRUE, built |-> 0],
                        !.props.LAST_DASHBOARD_RUN = dash.run[r].now]
    /\ DashRest

\* finally { lock.releaseLock() }; the end of the execution releases the lock as well
Release(r) ==
    /\ dash.run[r].pc = "release"
    /\ dash' = [dash EXCEPT !.lock = "none",
                            !.run[r] = [NoRun EXCEPT !.outcome = dash.run[r].outcome]]
    /\ DashRest

\* TickMillis pass
DashTick ==
    /\ dash.now < StartMillis + MaxTicks * TickMillis
    /\ dash' = [dash EXCEPT !.now = @ + TickMillis]
    /\ DashRest

\* a user edits the data rows of the source sheet
EditSource(data) ==
    /\ dash.source.exists
    /\ data # dash.source.data
    /\ dash' = [dash EXCEPT !.source.data = data]
    /\ DashRest

\* the source sheet is renamed, or gets its name back
RenameSource ==
    /\ dash' = [dash EXCEPT !.source.exists = ~@]
    /\ DashRest

NextDash ==
    \/ \E r \in Runs : TryLock(r)
    \/ \E r \in Runs : CheckAndRead(r)
    \/ \E r \in Runs : Aggregate(r)
    \/ \E r \in Runs, fate \in Fates : Render(r, fate)
    \/ \E r \in Runs : Release(r)
    \/ DashTick
    \/ \E data \in SourceData : EditSource(data)
    \/ RenameSource

\* createFullDashboard called from the menu and from onEdit
SpecDash == InitDash /\ [][NextDash]_vars

(***************************************************************************)
(* C25: the document lock of createFullDashboard.                          *)
(***************************************************************************)
\* the run r is between the acquisition of the lock and its release
InSection(r) == dash.run[r].pc \in {"locked", "aggregate", "render", "release"}

\* what createFullDashboard can write: the two sheets and the document properties
Written == <<dash.dashboard, dash.pivotTable, dash.props>>

\* C25: the run that holds the document lock is the one run between acquisition and
\* release, so at most one run is there and a run that has ended, throttled, failed
\* or rebuilt, holds the lock no more; a run that finds the lock taken ends without
\* a change to a sheet, a property or the lock
C25_LockHeldThroughRebuild ==
    [][ /\ \A r \in Runs : (dash'.lock = r) <=> InSection(r)'
        /\ \A r \in Runs :
              ( /\ dash.run[r].pc = "idle" /\ dash.lock # "none"
                /\ dash'.run[r] # dash.run[r] )
              => /\ dash'.run[r].pc = "idle"
                 /\ dash'.run[r].outcome = "lock not acquired"
                 /\ Written' = Written
                 /\ dash'.lock = dash.lock
      ]_vars

\* a run found the lock taken and ended, while the run that holds the lock has found
\* itself throttled and is about to release it
C25_Witness ==
    /\ dash.run["r1"].pc = "idle" /\ dash.run["r1"].outcome = "lock not acquired"
    /\ dash.run["r2"].pc = "release" /\ dash.run["r2"].outcome = "throttled"
    /\ dash.lock = "r2"

(***************************************************************************)
(* C26: the throttle of createFullDashboard.                               *)
(***************************************************************************)
\* C26: LAST_DASHBOARD_RUN is written only by a run that ends its rebuild without
\* any error, with the time that run read, at least THROTTLE_MS after the time
\* recorded before; a run that finds itself throttled writes no sheet and no
\* property
C26_OnlyCleanRebuildsAreRecorded ==
    [][ /\ dash'.props.LAST_DASHBOARD_RUN # dash.props.LAST_DASHBOARD_RUN
           => \E r \in Runs :
                 /\ dash.run[r].pc = "render"
                 /\ dash'.run[r].outcome = "rebuilt"
                 /\ dash'.props.LAST_DASHBOARD_RUN = dash.run[r].now
                 /\ dash.run[r].now - dash.props.LAST_DASHBOARD_RUN >= THROTTLE_MS
        /\ \A r \in Runs :
              ( /\ dash.run[r].pc = "locked" /\ dash'.run[r] # dash.run[r]
                /\ dash.now - dash.props.LAST_DASHBOARD_RUN < THROTTLE_MS )
              => Written' = Written
      ]_vars

(***************************************************************************)
(* C27: the aggregates a rebuild renders.                                  *)
(***************************************************************************)
\* C27: the charts a rebuild writes are those of the aggregates of the rows the
\* same run read from the source sheet (stated for the client counts, which a
\* round trip through the properties leaves as they are)
C27_RendersAggregatesOfRowsRead ==
    [][\A r \in Runs :
          (dash.run[r].pc = "render" /\ dash'.dashboard # dash.dashboard)
          => dash'.dashboard.charts.clientChart
                 = DashboardCharts(processDataForChartsApp4(dash.run[r].data)).clientChart
      ]_vars

(***************************************************************************)
(* C28: a hit of getAggregatesWithCache against a miss.                    *)
(***************************************************************************)
\* C28: a hit of getAggregatesWithCache on the entry stored for the same rows gives
\* the aggregates processDataForCharts produced for them, allFrequencies included,
\* and so the charts of a miss
C28_HitGivesStoredAggregates ==
    [][\A r \in Runs :
          ( /\ dash.run[r].pc = "aggregate" /\ dash'.run[r].hit
            /\ dash.props.AGG_CACHE_JSON.str
                 = StringifyAggregates(processDataForChartsApp4(dash.run[r].data)) )
          => /\ dash'.run[r].agg = processDataForChartsApp4(dash.run[r].data)
             /\ DashboardCharts(dash'.run[r].agg)
                  = DashboardCharts(processDataForChartsApp4(dash.run[r].data))
      ]_vars

=============================================================================
